---- MODULE Spec2Model ----
(***************************************************************************)
(* A model of the scan orchestration pipeline of prebid-insights:          *)
(*   - PuppeteerTaskRunner (runTasks / executeChunk / processPageTask),    *)
(*   - prebidExplorer (range, run, persist),                               *)
(*   - ResultsProcessor.saveResults,                                       *)
(*   - the results-handler utilities (processAndLogTaskResults,            *)
(*     logErrorUrl, writeResultsToFile).                                   *)
(***************************************************************************)
EXTENDS Integers, Sequences, FiniteSets, TLC

(***************************************************************************)
(* Bounds of the model.                                                    *)
(***************************************************************************)
MaxFiles == 3        \* entries in a repository listing
MaxCount == 2        \* largest numUrls tried
MaxLines == 2        \* lines of the input file updateInputFile is given
MaxContentLen == 3   \* atoms in the content of a source file
MaxMsgLen == 2       \* words in the body of an error message
MaxListLen == 5      \* longest URL list the range and the chunk loop are applied to
MaxSize == 2         \* largest chunk size of the partition check
MaxUrls == 2          \* URLs in the input source
MaxConcurrency == 2   \* largest options.concurrency tried
MaxChunkSize == 1     \* largest options.chunkSize tried

(***************************************************************************)
(* Small helpers on sequences.                                             *)
(***************************************************************************)
Range(s) == {s[i] : i \in DOMAIN s}

Min(a, b) == IF a < b THEN a ELSE b

\* Array.prototype.slice(from, to) with 0-based from, exclusive to.
Slice(s, from, to) ==
    IF from >= Len(s) THEN <<>> ELSE SubSeq(s, from + 1, Min(to, Len(s)))

\* Array.prototype.filter
RECURSIVE SelectSeqBy(_, _)
SelectSeqBy(s, keep) ==
    IF s = <<>> THEN <<>>
    ELSE IF Head(s) \in keep THEN <<Head(s)>> \o SelectSeqBy(Tail(s), keep)
         ELSE SelectSeqBy(Tail(s), keep)

\* number of positions of s holding an element of S
Count(s, S) == Cardinality({i \in DOMAIN s : s[i] \in S})

(***************************************************************************)
(* The URL universe and what the world does when a URL is visited.         *)
(***************************************************************************)
UrlNames == <<"A", "B", "C", "D", "E", "F">>
SourceUrls == SubSeq(UrlNames, 1, MaxUrls)
Urls == Range(SourceUrls)

Modes == {"vanilla", "cluster"}

\* Per-URL behaviour of a visit: what the browser / the page does for it.
\*   data       the in-page script reports at least one library
\*   no_data    the page loads, nothing is detected
\*   dns        page.goto raises net::ERR_NAME_NOT_RESOLVED
\*   timeout    page.goto raises a navigation timeout
\*   other      page.evaluate raises an unrelated error
\*   open_fail  the page cannot be opened (browser.newPage rejects)
\*   close_fail the page cannot be closed (page.close rejects)
Behaviours == {"data", "no_data", "dns", "timeout", "other", "open_fail", "close_fail"}

Unset == "unset"

\* The error text page.goto / page.evaluate raise, as a sequence of words.
ErrorMessage(b, url) ==
    CASE b = "dns"     -> <<"net::ERR_NAME_NOT_RESOLVED", "at", url>>
      [] b = "timeout" -> <<"Navigation", "timeout", "of", "60000", "ms", "exceeded">>
      [] OTHER         -> <<"Something", "went", "wrong">>

\* String.prototype.toUpperCase on one word
UpperWord(w) ==
    CASE w = "Navigation" -> "NAVIGATION"
      [] w = "timeout"    -> "TIMEOUT"
      [] w = "of"         -> "OF"
      [] w = "ms"         -> "MS"
      [] w = "exceeded"   -> "EXCEEDED"
      [] w = "Something"  -> "SOMETHING"
      [] w = "went"       -> "WENT"
      [] w = "wrong"      -> "WRONG"
      [] w = "at"         -> "AT"
      [] w = "enotfound"  -> "ENOTFOUND"
      [] w = "Error"      -> "ERROR"
      [] w = "error"      -> "ERROR"
      [] w = "processing" -> "PROCESSING"
      [] w = "Unknown"    -> "UNKNOWN"
      [] w = "Err_Name_Not_Resolved" -> "ERR_NAME_NOT_RESOLVED"
      [] OTHER            -> w

\* errorMessage.match(/net::([A-Z_]+)/): the captured token of a word, "" if none
NetToken(w) ==
    CASE w = "net::ERR_NAME_NOT_RESOLVED"   -> "ERR_NAME_NOT_RESOLVED"
      [] w = "net::ERR_CONNECTION_REFUSED" -> "ERR_CONNECTION_REFUSED"
      [] w = "net::ERR_TIMED_OUT"          -> "ERR_TIMED_OUT"
      [] OTHER                             -> ""

\* A message is the sequence of its words, one space between neighbours;
\* Blank as first or last element stands for leading or trailing whitespace
\* (alone: a message of whitespace only), <<>> for a missing or empty message.
Blank == " "

\* `${trimmedUrl}:` as one word
UrlColons == <<"A:", "B:", "C:", "D:", "E:", "F:">>
UrlColon(url) == UrlColons[CHOOSE i \in DOMAIN UrlNames : UrlNames[i] = url]

\* const prefix = `Error processing ${trimmedUrl}: `
ErrorPrefix(url) == <<"Error", "processing", UrlColon(url)>>

\* errorMessage.startsWith(prefix): the prefix ends with a space, so
\* something, be it whitespace only, follows its three words
StartsWithPrefix(msg, url) ==
    Len(msg) > 3 /\ SubSeq(msg, 1, 3) = ErrorPrefix(url)

\* String.prototype.trim
TrimWords(ws) ==
    LET from == IF ws # <<>> /\ ws[1] = Blank THEN 2 ELSE 1
        to   == IF Len(ws) >= from /\ ws[Len(ws)] = Blank THEN Len(ws) - 1 ELSE Len(ws)
    IN SubSeq(ws, from, to)

\* an errorCode that slugs the whole message, whatever it starts with
ErrorCodeOf_KeepsPrefix(msg, url) ==
    LET errorMessage == IF msg = <<>> THEN <<"Unknown", "error">> ELSE msg
        hits == {i \in DOMAIN errorMessage : NetToken(errorMessage[i]) # ""}
    IN
    IF hits # {}
    THEN <<NetToken(errorMessage[CHOOSE i \in hits : \A j \in hits : i <= j])>>
    ELSE LET trimmed == TrimWords(errorMessage) IN
         IF trimmed = <<>> THEN <<"UNKNOWN_PAGE_ERROR">>
         ELSE [i \in DOMAIN trimmed |-> UpperWord(trimmed[i])]

\* processPageTask, catch branch: the errorCode derived from the error text.
\* A code is the sequence of its "_"-joined upper-case words.
ErrorCodeOf(msg, url) ==
    LET errorMessage == IF msg = <<>> THEN <<"Unknown", "error">> ELSE msg
        hits == {i \in DOMAIN errorMessage : NetToken(errorMessage[i]) # ""}
    IN
    IF hits # {}
    THEN <<NetToken(errorMessage[CHOOSE i \in hits : \A j \in hits : i <= j])>>
    ELSE LET body    == IF StartsWithPrefix(errorMessage, url)
                        THEN SubSeq(errorMessage, 4, Len(errorMessage))
                        ELSE errorMessage
             trimmed == TrimWords(body)
         IN IF trimmed = <<>> THEN <<"UNKNOWN_PAGE_ERROR">>
            ELSE [i \in DOMAIN trimmed |-> UpperWord(trimmed[i])]

\* What the in-page script returns for a URL that loads.
InspectorLibraries(b) == IF b \in {"data", "close_fail"} THEN <<"googletag">> ELSE <<>>

PageDataOf(url, b) ==
    [url |-> url, libraries |-> InspectorLibraries(b), prebidInstances |-> <<>>]

\* what one visit does: page.goto / page.evaluate raise an error with a
\* message, or the in-page script returns its data
VisitOf(url, b) ==
    [raised   |-> b \in {"dns", "timeout", "other"},
     message  |-> ErrorMessage(b, url),
     pageData |-> PageDataOf(url, b)]

\* pageData.url = trimmedUrl; if (pageData.libraries.length > 0 || (pageData
\* .prebidInstances && pageData.prebidInstances.length > 0)) success else
\* no_data.  A prebidInstances the script left undefined reads as <<>>.
ClassifyPageData(pageData) ==
    IF Len(pageData.libraries) > 0 \/ Len(pageData.prebidInstances) > 0
    THEN [type |-> "success", data |-> pageData]
    ELSE [type |-> "no_data", url |-> pageData.url]

\* processPageTask on a visit
ProcessVisit(url, visit) ==
    IF visit.raised
    THEN [type |-> "error", url |-> url, error |-> ErrorCodeOf(visit.message, url)]
    ELSE ClassifyPageData([visit.pageData EXCEPT !.url = url])

\* a processPageTask that takes an expired navigation for a page without data
ProcessPageTask_TimeoutAsNoData(url, b) ==
    ProcessVisit(url, VisitOf(url, IF b = "timeout" THEN "no_data" ELSE b))

\* the TaskResult of the visit of each URL under each behaviour, tabulated
TaskResultOf ==
    [url \in Range(UrlNames) |-> [b \in Behaviours |-> ProcessVisit(url, VisitOf(url, b))]]

\* processPageTask: the TaskResult of one visit whose page was opened.
ProcessPageTask(url, b) ==
    TaskResultOf[url][b]

\* The URL a TaskResult is about.
ResultUrl(r) == IF r.type = "success" THEN r.data.url ELSE r.url

(***************************************************************************)
(* State.                                                                  *)
(***************************************************************************)
VARIABLES
    options,           \* PrebidExplorerOptions: puppeteerType, concurrency, chunkSize, source, range
    behaviour,         \* URL -> what a visit of it does (Unset until first visited)
    ppc,               \* position of prebidExplorer
    allUrls,           \* prebidExplorer: allUrls
    urlsToProcess,     \* prebidExplorer: urlsToProcess (after the range)
    pc,                \* mode -> position of that mode's PuppeteerTaskRunner
    chunkStart,        \* mode -> runTasks' loop index i (0-based)
    taskResults,       \* mode -> runTasks' taskResults
    processedUrlsSet,  \* mode -> the attempted-URL set
    ctx,               \* mode -> the chunk's browser / cluster: "none", "open", "closed",
                       \*         "closeFailed" (its last close() raised)
    k,                 \* vanilla: 1-based position of the for-of loop in the chunk
    job,               \* cluster: URL -> state of its queued job
    chunksRun,         \* mode -> number of executeChunk calls started
    saves,             \* number of saveResults calls made by prebidExplorer
    today,             \* the calendar day new Date() gives
    dirs,              \* the directories that exist
    store,             \* record-store path -> content of that file
    errorLogs,         \* error log file name -> its lines
    inputFile,         \* the input file: [exists, lines]
    call               \* what the last persistence call did (returned / raised / logged)

engineVars == <<pc, chunkStart, taskResults, processedUrlsSet, ctx, k, job, chunksRun, behaviour>>

\* a step of the task runner leaves prebidExplorer's own state and the file
\* system alone
OnlyEngine ==
    UNCHANGED <<options, ppc, allUrls, urlsToProcess, saves, today, dirs, store,
                errorLogs, inputFile, call>>

\* chunks that reach one URL into the next chunk
ChunkOf_Overlapping(m) ==
    IF options.chunkSize > 0
    THEN Slice(urlsToProcess, chunkStart[m], chunkStart[m] + options.chunkSize + 1)
    ELSE urlsToProcess

\* the chunk executeChunk is working on
ChunkOf(m) ==
    IF options.chunkSize > 0
    THEN Slice(urlsToProcess, chunkStart[m], chunkStart[m] + options.chunkSize)
    ELSE urlsToProcess

\* the visit of url behaves as b: the world decides on first contact and does
\* not change its mind
Behaves(url, b) ==
    /\ behaviour[url] \in {Unset, b}
    /\ behaviour' = [behaviour EXCEPT ![url] = b]

(***************************************************************************)
(* PuppeteerTaskRunner.runTasks: the chunk loop.                           *)
(***************************************************************************)
RunTasks(m) ==
    /\ pc[m] = "runTasks"
    /\ IF options.chunkSize > 0 /\ chunkStart[m] >= Len(urlsToProcess)
       THEN /\ pc' = [pc EXCEPT ![m] = "returned"]
            /\ UNCHANGED <<chunksRun, ctx, k, job>>
       ELSE /\ pc' = [pc EXCEPT ![m] = "launch"]
            /\ chunksRun' = [chunksRun EXCEPT ![m] = @ + 1]
            /\ ctx' = [ctx EXCEPT ![m] = "none"]
            /\ k' = 1
            /\ job' = [u \in Urls |-> "none"]
    /\ UNCHANGED <<chunkStart, taskResults, processedUrlsSet, behaviour>>
    /\ OnlyEngine

\* executeChunk returned normally: back in runTasks' loop (or after the single call)
AfterChunk(m) ==
    IF options.chunkSize > 0 THEN "runTasks" ELSE "returned"

\* a loop that steps one position too far between chunks
NextChunkStart_Gap(m) ==
    IF options.chunkSize > 0 THEN chunkStart[m] + options.chunkSize + 1 ELSE chunkStart[m]

\* for (let i = 0; i < urlsToProcess.length; i += chunkSize)
NextChunkStart(m) ==
    IF options.chunkSize > 0 THEN chunkStart[m] + options.chunkSize ELSE chunkStart[m]

(***************************************************************************)
(* executeChunk, vanilla branch.                                           *)
(***************************************************************************)
\* puppeteer.launch: a browser, null, or an exception (caught; finally finds
\* no browser to close)
VanillaLaunch(m) ==
    /\ m = "vanilla" /\ pc[m] = "launch"
    /\ \E launched \in {"browser", "null", "throws"} :
         IF launched = "browser"
         THEN /\ ctx' = [ctx EXCEPT ![m] = "open"]
              /\ pc' = [pc EXCEPT ![m] = "newPage"]
              /\ UNCHANGED chunkStart
         ELSE /\ pc' = [pc EXCEPT ![m] = AfterChunk(m)]
              /\ chunkStart' = [chunkStart EXCEPT ![m] = NextChunkStart(m)]
              /\ UNCHANGED ctx
    /\ UNCHANGED <<taskResults, processedUrlsSet, k, job, chunksRun, behaviour>>
    /\ OnlyEngine

\* a loop in which a page that cannot be opened is caught by nobody
VanillaNewPage_Uncaught(m) ==
    /\ m = "vanilla" /\ pc[m] = "newPage"
    /\ IF k > Len(ChunkOf(m))
       THEN /\ pc' = [pc EXCEPT ![m] = "closeBrowser"]
            /\ UNCHANGED <<k, behaviour>>
       ELSE \E b \in Behaviours :
               /\ Behaves(ChunkOf(m)[k], b)
               /\ pc' = [pc EXCEPT ![m] = IF b = "open_fail" THEN "threw" ELSE "process"]
               /\ UNCHANGED k
    /\ UNCHANGED <<chunkStart, taskResults, processedUrlsSet, ctx, job, chunksRun>>
    /\ OnlyEngine

\* for (const url of urlsInChunk) { if (url) { page = await browser.newPage()
VanillaNewPage(m) ==
    /\ m = "vanilla" /\ pc[m] = "newPage"
    /\ IF k > Len(ChunkOf(m))
       THEN /\ pc' = [pc EXCEPT ![m] = "closeBrowser"]
            /\ UNCHANGED <<k, behaviour>>
       ELSE LET url == ChunkOf(m)[k] IN
            IF url = ""
            THEN /\ k' = k + 1
                 /\ UNCHANGED <<pc, behaviour>>
            ELSE \E b \in Behaviours :
                   /\ Behaves(url, b)
                   /\ pc' = [pc EXCEPT ![m] =
                                IF b = "open_fail" THEN "closeBrowser" ELSE "process"]
                   /\ UNCHANGED k
    /\ UNCHANGED <<chunkStart, taskResults, processedUrlsSet, ctx, job, chunksRun>>
    /\ OnlyEngine

\* result = await this.processPageTask({page, data: url}); taskResults.push(result)
VanillaProcess(m) ==
    /\ m = "vanilla" /\ pc[m] = "process"
    /\ LET url == ChunkOf(m)[k] IN
         taskResults' = [taskResults EXCEPT ![m] =
                            Append(@, ProcessPageTask(url, behaviour[url]))]
    /\ pc' = [pc EXCEPT ![m] = "closePage"]
    /\ UNCHANGED <<chunkStart, processedUrlsSet, ctx, k, job, chunksRun, behaviour>>
    /\ OnlyEngine

\* await page.close(); processedUrlsSet.add(url)
VanillaClosePage(m) ==
    /\ m = "vanilla" /\ pc[m] = "closePage"
    /\ LET url == ChunkOf(m)[k] IN
         IF behaviour[url] = "close_fail"
         THEN /\ pc' = [pc EXCEPT ![m] = "closeBrowser"]
              /\ UNCHANGED <<processedUrlsSet, k>>
         ELSE /\ processedUrlsSet' = [processedUrlsSet EXCEPT ![m] = @ \cup {url}]
              /\ k' = k + 1
              /\ pc' = [pc EXCEPT ![m] = "newPage"]
    /\ UNCHANGED <<chunkStart, taskResults, ctx, job, chunksRun, behaviour>>
    /\ OnlyEngine

\* finally { if (browser) await browser.close() }: a failure of close leaves
\* executeChunk, runTasks and prebidExplorer by exception
VanillaCloseBrowser(m) ==
    /\ m = "vanilla" /\ pc[m] = "closeBrowser"
    /\ \E closed \in BOOLEAN :
         IF closed
         THEN /\ ctx' = [ctx EXCEPT ![m] = "closed"]
              /\ pc' = [pc EXCEPT ![m] = AfterChunk(m)]
              /\ chunkStart' = [chunkStart EXCEPT ![m] = NextChunkStart(m)]
         ELSE /\ ctx' = [ctx EXCEPT ![m] = "closeFailed"]
              /\ pc' = [pc EXCEPT ![m] = "threw"]
              /\ UNCHANGED chunkStart
    /\ UNCHANGED <<taskResults, processedUrlsSet, k, job, chunksRun, behaviour>>
    /\ OnlyEngine

(***************************************************************************)
(* executeChunk, cluster branch.  The pool (puppeteer-cluster) is outside  *)
(* the repository: the model lets the promise of cluster.queue(url) settle *)
(* in each of the three ways executeChunk provides for (a TaskResult,      *)
(* undefined/null, a rejection).                                           *)
(***************************************************************************)
Settled == {"value", "undefined", "rejected"}

\* urlsInChunk.filter(url => url)
QueuedUrls(m) == SelectSeqBy(ChunkOf(m), Urls)

\* Cluster.launch: outside the try, a failure leaves executeChunk by exception
ClusterLaunch(m) ==
    /\ m = "cluster" /\ pc[m] = "launch"
    /\ \E launched \in BOOLEAN :
         IF launched
         THEN /\ ctx' = [ctx EXCEPT ![m] = "open"]
              /\ pc' = [pc EXCEPT ![m] = "task"]
         ELSE /\ pc' = [pc EXCEPT ![m] = "threw"]
              /\ UNCHANGED ctx
    /\ UNCHANGED <<chunkStart, taskResults, processedUrlsSet, k, job, chunksRun, behaviour>>
    /\ OnlyEngine

\* await cluster.task(...): outside the try as well; the cluster stays open
ClusterTask(m) ==
    /\ m = "cluster" /\ pc[m] = "task"
    /\ \E registered \in BOOLEAN :
         pc' = [pc EXCEPT ![m] = IF registered THEN "queue" ELSE "threw"]
    /\ UNCHANGED <<chunkStart, taskResults, processedUrlsSet, ctx, k, job, chunksRun, behaviour>>
    /\ OnlyEngine

\* urlsInChunk.filter(url => url).map(url => { processedUrlsSet.add(url);
\*   return cluster.queue(url).catch(...) })   -- synchronous, one step
ClusterQueue(m) ==
    /\ m = "cluster" /\ pc[m] = "queue"
    /\ processedUrlsSet' = [processedUrlsSet EXCEPT ![m] = @ \cup Range(QueuedUrls(m))]
    /\ job' = [u \in Urls |-> IF u \in Range(QueuedUrls(m)) THEN "queued" ELSE "none"]
    /\ pc' = [pc EXCEPT ![m] = "allSettled"]
    /\ UNCHANGED <<chunkStart, taskResults, ctx, k, chunksRun, behaviour>>
    /\ OnlyEngine

InFlight == {u \in Urls : job[u] = "running"}

\* a pool that hands a queued job to a worker whether or not one is free
WorkerStart_Unbounded(m, u) ==
    /\ m = "cluster" /\ pc[m] = "allSettled"
    /\ job[u] = "queued"
    /\ \E b \in Behaviours : Behaves(u, b)
    /\ job' = [job EXCEPT ![u] = "running"]
    /\ UNCHANGED <<pc, chunkStart, taskResults, processedUrlsSet, ctx, k, chunksRun>>
    /\ OnlyEngine

\* a free worker of the pool (maxConcurrency: options.concurrency) takes a job
WorkerStart(m, u) ==
    /\ m = "cluster" /\ pc[m] = "allSettled"
    /\ job[u] = "queued"
    /\ Cardinality(InFlight) < options.concurrency
    /\ \E b \in Behaviours : Behaves(u, b)
    /\ job' = [job EXCEPT ![u] = "running"]
    /\ UNCHANGED <<pc, chunkStart, taskResults, processedUrlsSet, ctx, k, chunksRun>>
    /\ OnlyEngine

\* the pool rejects the queued job (a queueing / dispatch failure)
QueueReject(m, u) ==
    /\ m = "cluster" /\ pc[m] = "allSettled"
    /\ job[u] = "queued"
    /\ job' = [job EXCEPT ![u] = "rejected"]
    /\ UNCHANGED <<pc, chunkStart, taskResults, processedUrlsSet, ctx, k, chunksRun, behaviour>>
    /\ OnlyEngine

\* how the promise of a job that a worker took can settle
PoolSettles(b) ==
    IF b = "open_fail" THEN {"rejected"} ELSE {"value", "undefined"}

JobSettle(m, u) ==
    /\ m = "cluster" /\ pc[m] = "allSettled"
    /\ job[u] = "running"
    /\ \E s \in PoolSettles(behaviour[u]) : job' = [job EXCEPT ![u] = s]
    /\ UNCHANGED <<pc, chunkStart, taskResults, processedUrlsSet, ctx, k, chunksRun, behaviour>>
    /\ OnlyEngine

\* .catch(error => ({type: 'error', url, error: 'QUEUE_ERROR_OR_TASK_FAILED'}))
QueueErrorResult(url) ==
    [type |-> "error", url |-> url, error |-> <<"QUEUE_ERROR_OR_TASK_FAILED">>]

\* a forEach that pushes fulfilled values only and lets a rejected job go
Collected_ValuesOnly(url, settle, b) ==
    IF settle = "value" THEN <<ProcessPageTask(url, b)>> ELSE <<>>

\* what settledResults.forEach pushes for one settled promise
Collected(url, settle, b) ==
    CASE settle = "value"    -> <<ProcessPageTask(url, b)>>
      [] settle = "rejected" -> <<QueueErrorResult(url)>>
      [] OTHER               -> <<>>

RECURSIVE CollectAll(_, _, _)
CollectAll(urls, jobs, beh) ==
    IF urls = <<>> THEN <<>>
    ELSE Collected(Head(urls), jobs[Head(urls)], beh[Head(urls)])
            \o CollectAll(Tail(urls), jobs, beh)

\* settledResults = await Promise.allSettled(promises); settledResults.forEach(...)
ClusterCollect(m) ==
    /\ m = "cluster" /\ pc[m] = "allSettled"
    /\ \A u \in Range(QueuedUrls(m)) : job[u] \in Settled
    /\ taskResults' = [taskResults EXCEPT ![m] = @ \o CollectAll(QueuedUrls(m), job, behaviour)]
    /\ pc' = [pc EXCEPT ![m] = "idle"]
    /\ UNCHANGED <<chunkStart, processedUrlsSet, ctx, k, job, chunksRun, behaviour>>
    /\ OnlyEngine

\* await cluster.idle()
ClusterIdle(m) ==
    /\ m = "cluster" /\ pc[m] = "idle"
    /\ \E idled \in BOOLEAN :
         pc' = [pc EXCEPT ![m] = IF idled THEN "close" ELSE "catchClose"]
    /\ UNCHANGED <<chunkStart, taskResults, processedUrlsSet, ctx, k, job, chunksRun, behaviour>>
    /\ OnlyEngine

\* await cluster.close() at the end of the try block
ClusterClose(m) ==
    /\ m = "cluster" /\ pc[m] = "close"
    /\ \E closed \in BOOLEAN :
         IF closed
         THEN /\ ctx' = [ctx EXCEPT ![m] = "closed"]
              /\ pc' = [pc EXCEPT ![m] = AfterChunk(m)]
              /\ chunkStart' = [chunkStart EXCEPT ![m] = NextChunkStart(m)]
         ELSE /\ pc' = [pc EXCEPT ![m] = "catchClose"]
              /\ UNCHANGED <<ctx, chunkStart>>
    /\ UNCHANGED <<taskResults, processedUrlsSet, k, job, chunksRun, behaviour>>
    /\ OnlyEngine

\* catch (error) { ...; if (cluster) await cluster.close() }
ClusterCatchClose(m) ==
    /\ m = "cluster" /\ pc[m] = "catchClose"
    /\ \E closed \in BOOLEAN :
         IF closed
         THEN /\ ctx' = [ctx EXCEPT ![m] = "closed"]
              /\ pc' = [pc EXCEPT ![m] = AfterChunk(m)]
              /\ chunkStart' = [chunkStart EXCEPT ![m] = NextChunkStart(m)]
         ELSE /\ ctx' = [ctx EXCEPT ![m] = "closeFailed"]
              /\ pc' = [pc EXCEPT ![m] = "threw"]
              /\ UNCHANGED chunkStart
    /\ UNCHANGED <<taskResults, processedUrlsSet, k, job, chunksRun, behaviour>>
    /\ OnlyEngine

Engine(m) ==
    \/ RunTasks(m)
    \/ VanillaLaunch(m) \/ VanillaNewPage(m) \/ VanillaProcess(m)
    \/ VanillaClosePage(m) \/ VanillaCloseBrowser(m)
    \/ ClusterLaunch(m) \/ ClusterTask(m) \/ ClusterQueue(m)
    \/ \E u \in Urls : WorkerStart(m, u) \/ QueueReject(m, u) \/ JobSettle(m, u)
    \/ ClusterCollect(m) \/ ClusterIdle(m) \/ ClusterClose(m) \/ ClusterCatchClose(m)

(***************************************************************************)
(* The file system the persistence code works on.                          *)
(***************************************************************************)
MaxDay == 2          \* calendar days the clock can show

Days == 1..MaxDay

\* outputDir/<Mon>/<date>.json is the path ResultsProcessor.saveResults builds,
\* outputDir/<Mon-YYYY>/<date>.json the one writeResultsToFile builds.
MonthDirs == {"outputDir/Mon", "outputDir/Mon-YYYY"}
StorePaths == [dir : MonthDirs, day : Days]
AllDirs == {"outputDir", "errors"} \cup MonthDirs

ErrorFiles == {"no_prebid.txt", "navigation_errors.txt", "error_processing.txt"}

\* A file's content: absent, a JSON array of records, a JSON value that is
\* not an array, or text that is not JSON.
Absent == [kind |-> "absent", recs |-> <<>>]
Garbage == [kind |-> "garbage", recs |-> <<>>]
NotArray == [kind |-> "object", recs |-> <<>>]

\* JSON.stringify(results, null, 2) + '\n'
Stringify(recs) == [kind |-> "array", recs |-> recs]

\* fs.mkdirSync(dir, {recursive: true}) creates the parents too
MkdirRecursive(ds, dir) ==
    ds \cup {dir} \cup (IF dir \in MonthDirs THEN {"outputDir"} ELSE {})

fsVars == <<today, dirs, store, errorLogs, inputFile, call>>

(***************************************************************************)
(* prebidExplorer: options.range.                                          *)
(***************************************************************************)
NoRange == <<>>

\* the decimal tokens a range is written with: Digits[n + 1] is the numeral of n
Digits == <<"0", "1", "2", "3", "4", "5", "6", "7", "8", "9">>

\* parseInt(token, 10): [nan, val]
ParseInt(t) ==
    IF \E i \in DOMAIN Digits : Digits[i] = t
    THEN [nan |-> FALSE, val |-> (CHOOSE i \in DOMAIN Digits : Digits[i] = t) - 1]
    ELSE [nan |-> TRUE, val |-> 0]

\* a range whose start is taken as a 0-based index
ApplyRange_ZeroBased(urls, parts) ==
    IF parts = NoRange THEN urls
    ELSE
      LET startStr == parts[1]
          endStr   == IF Len(parts) >= 2 THEN parts[2] ELSE ""
          start0   == IF startStr # "" THEN ParseInt(startStr) ELSE [nan |-> FALSE, val |-> 1]
          end0     == IF endStr # "" THEN ParseInt(endStr) ELSE [nan |-> FALSE, val |-> Len(urls)]
      IN
      IF start0.nan \/ end0.nan \/ start0.val < 0 \/ end0.val < 0 THEN urls
      ELSE
        LET start == start0.val
            end   == IF end0.val > 0 THEN end0.val ELSE Len(urls)
        IN
        IF start >= Len(urls) THEN <<>>
        ELSE IF start >= end THEN Slice(urls, start, Len(urls))
        ELSE Slice(urls, start, end)

\* a range that gives nothing when its start is not before its end
ApplyRange_EmptyWhenReversed(urls, parts) ==
    IF parts = NoRange THEN urls
    ELSE
      LET startStr == parts[1]
          endStr   == IF Len(parts) >= 2 THEN parts[2] ELSE ""
          start0   == IF startStr # "" THEN ParseInt(startStr) ELSE [nan |-> FALSE, val |-> 1]
          end0     == IF endStr # "" THEN ParseInt(endStr) ELSE [nan |-> FALSE, val |-> Len(urls)]
      IN
      IF start0.nan \/ end0.nan \/ start0.val < 0 \/ end0.val < 0 THEN urls
      ELSE
        LET start == IF start0.val > 0 THEN start0.val - 1 ELSE 0
            end   == IF end0.val > 0 THEN end0.val ELSE Len(urls)
        IN
        IF start >= Len(urls) \/ start >= end THEN <<>>
        ELSE Slice(urls, start, end)

\* options.range is modelled by the parts options.range.split('-') gives;
\* <<>> stands for an unset range.
ApplyRange(urls, parts) ==
    IF parts = NoRange THEN urls
    ELSE
      LET startStr == parts[1]
          endStr   == IF Len(parts) >= 2 THEN parts[2] ELSE ""
          start0   == IF startStr # "" THEN ParseInt(startStr) ELSE [nan |-> FALSE, val |-> 1]
          end0     == IF endStr # "" THEN ParseInt(endStr) ELSE [nan |-> FALSE, val |-> Len(urls)]
      IN
      IF start0.nan \/ end0.nan \/ start0.val < 0 \/ end0.val < 0 THEN urls
      ELSE
        LET start == IF start0.val > 0 THEN start0.val - 1 ELSE 0
            end   == IF end0.val > 0 THEN end0.val ELSE Len(urls)
        IN
        IF start >= Len(urls) THEN <<>>
        ELSE IF start >= end THEN Slice(urls, start, Len(urls))
        ELSE Slice(urls, start, end)

\* the logger.warn the range step makes, "none" when it makes none
RangeWarning(urls, parts) ==
    IF parts = NoRange THEN "none"
    ELSE
      LET startStr == parts[1]
          endStr   == IF Len(parts) >= 2 THEN parts[2] ELSE ""
          start0   == IF startStr # "" THEN ParseInt(startStr) ELSE [nan |-> FALSE, val |-> 1]
          end0     == IF endStr # "" THEN ParseInt(endStr) ELSE [nan |-> FALSE, val |-> Len(urls)]
      IN
      IF start0.nan \/ end0.nan \/ start0.val < 0 \/ end0.val < 0 THEN "invalid range"
      ELSE
        LET start == IF start0.val > 0 THEN start0.val - 1 ELSE 0
            end   == IF end0.val > 0 THEN end0.val ELSE Len(urls)
        IN
        IF start >= Len(urls) THEN "start beyond the list"
        ELSE IF start >= end THEN "start not before end"
        ELSE "none"

(***************************************************************************)
(* ResultsProcessor.saveResults.                                           *)
(***************************************************************************)
\* finalResults: the data of the success results, in order
RECURSIVE SuccessData(_)
SuccessData(results) ==
    IF results = <<>> THEN <<>>
    ELSE IF Head(results).type = "success"
         THEN <<Head(results).data>> \o SuccessData(Tail(results))
         ELSE SuccessData(Tail(results))

SuccessUrls(results) == {d.url : d \in Range(SuccessData(results))}

SaveResultsPath == [dir |-> "outputDir/Mon", day |-> today]

\* what saveResults writes to the day's record-store file
SaveResultsStoreContent(old, finalResults) == Stringify(finalResults)

\* what saveResults writes to the .txt input file
SaveResultsInputLines(oldLines, scope, results) ==
    SelectSeqBy(scope, Range(scope) \ SuccessUrls(results))

\* a source selection that prefers the local file when both are supplied
UrlSourceType_FilePreferred(source) ==
    IF source = "github" THEN "GitHub" ELSE "InputFile"

\* options.source names what the caller supplied: "github" a repository
\* reference, "txt" a .txt input file, "csv" an input file of another
\* supported format (.csv, .json), "both" a repository reference together
\* with a .txt input file, "none" neither.
\* urlSourceType as prebidExplorer sets it: if (options.githubRepo) 'GitHub'
\* else if (options.inputFile) 'InputFile'
UrlSourceType(source) ==
    IF source \in {"github", "both"} THEN "GitHub" ELSE "InputFile"

\* this.options.inputFile.endsWith('.txt')
InputFileIsTxt(source) == source \in {"txt", "both"}

\* a reconciliation that rewrites the input file whatever its format
UpdatesInputFile_AnyFile(source) ==
    UrlSourceType(source) = "InputFile"

\* if (urlSourceType === 'InputFile' && this.options.inputFile &&
\*     this.options.inputFile.endsWith('.txt'))
UpdatesInputFile(source) ==
    UrlSourceType(source) = "InputFile" /\ InputFileIsTxt(source)

FsFaults == {"none", "mkdirOutput", "mkdirMonth", "writeStore", "writeInput"}

\* saveResults(taskResults, processedUrls, urlsToProcess, urlSourceType) with
\* the file system failing at `fault` (if that operation is reached)
SaveResults(results, scope, fault) ==
    LET finalResults == SuccessData(results)
        needOutput   == "outputDir" \notin dirs
        needMonth    == "outputDir/Mon" \notin dirs
        failOutput   == needOutput /\ fault = "mkdirOutput"
        dirs1        == IF needOutput /\ ~failOutput
                        THEN MkdirRecursive(dirs, "outputDir") ELSE dirs
        writing      == ~failOutput /\ Len(finalResults) > 0
        failMonth    == writing /\ needMonth /\ fault = "mkdirMonth"
        dirs2        == IF writing /\ needMonth /\ ~failMonth
                        THEN MkdirRecursive(dirs1, "outputDir/Mon") ELSE dirs1
        failStore    == writing /\ ~failMonth /\ fault = "writeStore"
        wroteStore   == writing /\ ~failMonth /\ ~failStore
        outerCaught  == failOutput \/ failMonth \/ failStore
        updating     == /\ ~outerCaught
                        /\ UpdatesInputFile(options.source)
        failInput    == updating /\ fault = "writeInput"
    IN
    /\ dirs' = dirs2
    /\ store' = IF wroteStore
                THEN [store EXCEPT ![SaveResultsPath] =
                         SaveResultsStoreContent(@, finalResults)]
                ELSE store
    /\ inputFile' = IF updating /\ ~failInput
                    THEN [exists |-> TRUE,
                          lines  |-> SaveResultsInputLines(inputFile.lines, scope, results)]
                    ELSE inputFile
    /\ call' = [op |-> "saveResults", raised |-> FALSE, warned |-> FALSE,
                fsError |-> outerCaught \/ failInput,
                returned |-> finalResults, args |-> results]
    /\ UNCHANGED <<errorLogs, today>>

(***************************************************************************)
(* prebidExplorer.                                                         *)
(***************************************************************************)
pipeVars == <<options, ppc, allUrls, urlsToProcess, saves>>

vars == <<options, behaviour, ppc, allUrls, urlsToProcess, pc, chunkStart, taskResults,
          processedUrlsSet, ctx, k, job, chunksRun, saves, today, dirs, store,
          errorLogs, inputFile, call>>

Mode == options.puppeteerType

\* a source selection that returns quietly when no source is configured
AfterSourceSelection_Exits(source) ==
    IF source = "none" THEN "exited" ELSE "loaded"

\* if (options.githubRepo) ... else if (options.inputFile) ... else throw
\* new Error('No URL source specified.')
AfterSourceSelection(source) ==
    IF source = "none" THEN "threw" ELSE "loaded"

\* What the source can give: fetchUrlsFromGitHub returns [] when the fetch
\* fails; loadFileContents returns null for a file that cannot be read, and
\* allUrls stays empty.
LoadedUrls ==
    IF UrlSourceType(options.source) = "GitHub" THEN {SourceUrls, <<>>}
    ELSE IF inputFile.exists THEN {inputFile.lines}
    ELSE {<<>>}

\* a run that goes on to the task runner whatever is left to process
AfterRange_AlwaysRuns(ranged) == "running"

\* if (allUrls.length === 0) { logger.warn(...); return; }
AfterRange(ranged) ==
    IF Len(ranged) = 0 THEN "exited" ELSE "running"

\* steps 1 and 2: load the URLs of the source, apply the range, and call
\* taskRunner.runTasks (or return early when no URL is left)
LoadUrls ==
    /\ ppc = "start"
    /\ IF AfterSourceSelection(options.source) # "loaded"
       THEN /\ ppc' = AfterSourceSelection(options.source)
            /\ UNCHANGED <<allUrls, urlsToProcess, pc>>
       ELSE \E loaded \in LoadedUrls :
              LET ranged == IF Len(loaded) = 0 THEN loaded
                            ELSE ApplyRange(loaded, options.range)
              IN /\ allUrls' = loaded
                 /\ urlsToProcess' = ranged
                 /\ ppc' = AfterRange(ranged)
                 /\ pc' = IF AfterRange(ranged) = "running"
                          THEN [pc EXCEPT ![Mode] = "runTasks"] ELSE pc
    /\ UNCHANGED <<options, saves, chunkStart, taskResults, processedUrlsSet, ctx, k, job,
                   chunksRun, behaviour>>
    /\ UNCHANGED fsVars

\* step 4: resultsProcessor.saveResults(taskResults, processedUrls, urlsToProcess,
\* urlSourceType), once runTasks has returned
PersistResults ==
    /\ ppc = "running"
    /\ pc[Mode] = "returned"
    /\ \E fault \in FsFaults : SaveResults(taskResults[Mode], urlsToProcess, fault)
    /\ saves' = saves + 1
    /\ ppc' = "done"
    /\ UNCHANGED <<options, allUrls, urlsToProcess>>
    /\ UNCHANGED engineVars

(***************************************************************************)
(* Initial states.                                                         *)
(***************************************************************************)
OldRecord == [url |-> "old", libraries |-> <<"apstag">>, prebidInstances |-> <<>>]

NoCall == [op |-> "none", raised |-> FALSE, warned |-> FALSE, fsError |-> FALSE,
           returned |-> <<>>, args |-> <<>>]

InitEngineVars ==
    /\ behaviour = [u \in Urls |-> Unset]
    /\ chunkStart = [m \in Modes |-> 0]
    /\ taskResults = [m \in Modes |-> <<>>]
    /\ processedUrlsSet = [m \in Modes |-> {}]
    /\ ctx = [m \in Modes |-> "none"]
    /\ k = 1
    /\ job = [u \in Urls |-> "none"]
    /\ chunksRun = [m \in Modes |-> 0]

\* what the input file holds when a repository reference is supplied with it:
\* a URL the repository does not list
IgnoredFileLines == <<UrlNames[MaxUrls + 1]>>

\* the options a run of the pipeline is started with
PipelineOptions ==
    {o \in [puppeteerType : Modes, concurrency : 1..MaxConcurrency,
            chunkSize : {0, MaxChunkSize}, source : {"txt", "csv", "github", "both", "none"},
            range : {NoRange, <<"2", "3">>, <<"4", "">>}] : TRUE}

\* the day's record-store file as an earlier run may have left it
InitStoreContents == {Absent, Stringify(<<OldRecord>>), Garbage}

Init ==
    /\ options \in PipelineOptions
    /\ ppc = "start"
    /\ allUrls = <<>>
    /\ urlsToProcess = <<>>
    /\ pc = [m \in Modes |-> "off"]
    /\ InitEngineVars
    /\ saves = 0
    /\ today = 1
    /\ \E c \in InitStoreContents :
         /\ store = [p \in StorePaths |-> IF p = [dir |-> "outputDir/Mon", day |-> 1]
                                          THEN c ELSE Absent]
         /\ dirs = IF c = Absent THEN {} ELSE {"outputDir", "outputDir/Mon"}
    /\ errorLogs = [f \in ErrorFiles |-> <<>>]
    /\ inputFile \in IF options.source \in {"txt", "csv"}
                      THEN {[exists |-> TRUE, lines |-> SourceUrls],
                            [exists |-> FALSE, lines |-> <<>>]}
                      ELSE IF options.source = "both"
                      THEN {[exists |-> TRUE, lines |-> IgnoredFileLines]}
                      ELSE {[exists |-> FALSE, lines |-> <<>>]}
    /\ call = NoCall

Next == LoadUrls \/ (\E m \in Modes : Engine(m)) \/ PersistResults

Spec == Init /\ [][Next]_vars

\* Every await of the run is eventually resumed: a visit returns, raises or
\* times out, the pool settles every queued job, a file-system call returns.
\* The runs the completion of a run is followed on: the whole list, into an
\* output directory with no file for the day yet.  The range only shortens the
\* list, and saveResults overwrites the day's file without reading it.
InitLive ==
    /\ Init
    /\ options.range = NoRange
    /\ \A p \in StorePaths : store[p] = Absent

SpecLive == InitLive /\ [][Next]_vars /\ WF_vars(Next)

(***************************************************************************)
(* The two concurrency modes side by side: both runners are given the same *)
(* batch and meet the same per-URL behaviour.                              *)
(***************************************************************************)
InitModes ==
    /\ options \in {o \in [puppeteerType : {"both"}, concurrency : 1..MaxConcurrency,
                           chunkSize : {0, MaxChunkSize}, source : {"github"},
                           range : {NoRange}] : TRUE}
    /\ ppc = "running"
    /\ allUrls = SourceUrls
    /\ urlsToProcess = SourceUrls
    /\ pc = [m \in Modes |-> IF m = "vanilla" THEN "runTasks" ELSE "notCalled"]
    /\ InitEngineVars
    /\ saves = 0
    /\ today = 1
    /\ store = [p \in StorePaths |-> Absent]
    /\ dirs = {}
    /\ errorLogs = [f \in ErrorFiles |-> <<>>]
    /\ inputFile = [exists |-> FALSE, lines |-> <<>>]
    /\ call = NoCall

\* runTasks of the pooled runner is called with the same batch.  The two runs
\* share nothing but the per-URL behaviour, so every pair of runs is reached by
\* letting the sequential run finish before the pooled one starts.
CallPooled ==
    /\ pc["vanilla"] \in {"returned", "threw"}
    /\ pc["cluster"] = "notCalled"
    /\ pc' = [pc EXCEPT !["cluster"] = "runTasks"]
    /\ UNCHANGED <<chunkStart, taskResults, processedUrlsSet, ctx, k, job, chunksRun,
                   behaviour>>
    /\ OnlyEngine

NextModes == CallPooled \/ (\E m \in Modes : Engine(m))

SpecModes == InitModes /\ [][NextModes]_vars

(***************************************************************************)
(* A run whose .txt input file is shared with another process.             *)
(***************************************************************************)
\* the line the other process adds: a URL outside the scope of the run
AddedLine == UrlNames[MaxUrls + 1]

\* another process appends a line to the input file after prebidExplorer has
\* read it (loadFileContents) and before saveResults gets to it
OtherProcessAppends ==
    /\ ppc = "running"
    /\ inputFile.exists
    /\ AddedLine \notin Range(inputFile.lines)
    /\ inputFile' = [inputFile EXCEPT !.lines = Append(@, AddedLine)]
    /\ UNCHANGED <<options, ppc, allUrls, urlsToProcess, saves, today, dirs, store,
                   errorLogs, call>>
    /\ UNCHANGED engineVars

InitShared ==
    /\ Init
    /\ options.source = "txt"
    /\ inputFile.exists
    /\ \A p \in StorePaths : store[p] = Absent

NextShared == Next \/ OtherProcessAppends

SpecShared == InitShared /\ [][NextShared]_vars

(***************************************************************************)
(* The range and the chunk loop on lists long enough to be cut: the input  *)
(* file, the range and the chunk size are drawn freely, and executeChunk   *)
(* is taken in one step, in the run where every visit finds no ad library  *)
(* and nothing fails.                                                      *)
(***************************************************************************)
\* the tokens on the two sides of the '-' of a range: nothing, a numeral, or
\* something parseInt does not read
RangeTokens == {"", "x"} \cup {Digits[n + 1] : n \in 0..(MaxListLen + 1)}

\* what options.range.split('-') can give for a text with at most one '-'
RangeParts ==
    {NoRange} \cup {<<a>> : a \in RangeTokens}
              \cup {<<a, b>> : a \in RangeTokens, b \in RangeTokens}

\* executeChunk(currentChunkUrls, ...) returning normally: one result per URL
\* of the chunk, each URL marked as processed
ExecuteChunk(m) ==
    /\ pc[m] = "launch"
    /\ LET chunk == ChunkOf(m) IN
         /\ taskResults' = [taskResults EXCEPT ![m] =
                @ \o [i \in 1..Len(chunk) |-> ProcessPageTask(chunk[i], "no_data")]]
         /\ processedUrlsSet' = [processedUrlsSet EXCEPT ![m] = @ \cup Range(chunk)]
    /\ pc' = [pc EXCEPT ![m] = AfterChunk(m)]
    /\ chunkStart' = [chunkStart EXCEPT ![m] = NextChunkStart(m)]
    /\ UNCHANGED <<ctx, k, job, chunksRun, behaviour>>
    /\ OnlyEngine

\* chunkSize unset reads as 0 in runTasks (options.chunkSize && ... ? ... : 0)
InitPartition ==
    /\ options \in {o \in [puppeteerType : Modes, concurrency : {1},
                           chunkSize : -1..MaxSize, source : {"txt"},
                           range : RangeParts] : TRUE}
    /\ ppc = "start"
    /\ allUrls = <<>>
    /\ urlsToProcess = <<>>
    /\ pc = [m \in Modes |-> "off"]
    /\ InitEngineVars
    /\ saves = 0
    /\ today = 1
    /\ store = [p \in StorePaths |-> Absent]
    /\ dirs = {}
    /\ errorLogs = [f \in ErrorFiles |-> <<>>]
    /\ \E n \in 0..MaxListLen :
         inputFile = [exists |-> TRUE, lines |-> SubSeq(UrlNames, 1, n)]
    /\ call = NoCall

NextPartition == LoadUrls \/ (\E m \in Modes : RunTasks(m) \/ ExecuteChunk(m))

SpecPartition == InitPartition /\ [][NextPartition]_vars

(***************************************************************************)
(* results-handler.ts: processAndLogTaskResults and logErrorUrl.           *)
(***************************************************************************)
MaxBatch == 2        \* longest list handed to one call of a results-handler function

HandlerUrls == {"A", "B"}

\* a property that is undefined
NoValue == "undefined"

\* String.prototype.toLowerCase on one word
LowerWord(w) ==
    CASE w = "Navigation"                    -> "navigation"
      [] w = "TimeoutError:"                 -> "timeouterror:"
      [] w = "DNS"                           -> "dns"
      [] w = "Something"                     -> "something"
      [] w = "net::ERR_NAME_NOT_RESOLVED"    -> "net::err_name_not_resolved"
      [] w = "net::ERR_CONNECTION_REFUSED"   -> "net::err_connection_refused"
      [] w = "net::ERR_TIMED_OUT"            -> "net::err_timed_out"
      [] OTHER                               -> w

\* word w has tok as a substring
WordIncludes(w, tok) ==
    \/ w = tok
    \/ w = "timeouterror:" /\ tok = "timeout"

\* String.prototype.includes(pat) on a text of words: one word of pat may sit
\* inside a word of the text, several words must follow each other
Includes(msg, pat) ==
    IF Len(pat) = 1
    THEN \E i \in DOMAIN msg : WordIncludes(msg[i], pat[1])
    ELSE \E i \in 0..(Len(msg) - Len(pat)) :
            \A j \in DOMAIN pat : msg[i + j] = pat[j]

\* The error details of a failed visit as the handler reads them: code, message.
\* A message that is undefined reads like the empty one (message?.toLowerCase() || '').
NoMessage == <<>>

HandlerErrors ==
    { [code |-> "ENOTFOUND",             message |-> <<"DNS", "lookup", "failed">>],
      [code |-> "enotfound",             message |-> NoMessage],
      [code |-> "Err_Name_Not_Resolved", message |-> <<"Something", "went", "wrong">>],
      [code |-> NoValue,                 message |-> <<"TimeoutError:", "Navigation", "timeout", "exceeded">>],
      [code |-> NoValue,                 message |-> <<"net::ERR_CONNECTION_REFUSED", "at", "x">>],
      [code |-> "SOME_OTHER_ERROR",      message |-> <<"Something", "went", "wrong">>],
      [code |-> NoValue,                 message |-> NoMessage] }

\* a classification that looks at the error code only, and only as it is spelt
ErrorTypeForFile_CodeOnly(error) ==
    IF error.code \in {"ENOTFOUND", "ERR_NAME_NOT_RESOLVED"}
    THEN "navigation_error" ELSE "processing_error"

\* processAndLogTaskResults, case 'error': errorTypeForFile
ErrorTypeForFile(error) ==
    LET errorCode    == IF error.code = NoValue THEN NoValue ELSE UpperWord(error.code)
        errorMessage == [i \in DOMAIN error.message |-> LowerWord(error.message[i])]
    IN IF \/ errorCode = "ENOTFOUND"
          \/ errorCode = "ERR_NAME_NOT_RESOLVED"
          \/ Includes(errorMessage, <<"navigation", "timeout">>)
          \/ Includes(errorMessage, <<"net::err_name_not_resolved">>)
          \/ Includes(errorMessage, <<"net::err_connection_refused">>)
          \/ Includes(errorMessage, <<"net::err_timed_out">>)
          \/ Includes(errorMessage, <<"timeout">>)
       THEN "navigation_error"
       ELSE "processing_error"

\* logErrorUrl: errorFileName
ErrorFileName(errorType) ==
    CASE errorType = "no_prebid"        -> "no_prebid.txt"
      [] errorType = "navigation_error" -> "navigation_errors.txt"
      [] OTHER                          -> "error_processing.txt"

LogFaults == {"none", "mkdir", "append"}

\* logErrorUrl(url, errorType, baseOutputDir, logger) on the file-system state
\* st = [dirs, logs, failed, ...], with the file system failing at `fault`
LogErrorUrl(st, url, errorType, fault) ==
    LET needDir    == "errors" \notin st.dirs
        failMkdir  == needDir /\ fault = "mkdir"
        failAppend == ~failMkdir /\ fault = "append"
        file       == ErrorFileName(errorType)
    IN [st EXCEPT
          !.dirs   = IF needDir /\ ~failMkdir THEN MkdirRecursive(@, "errors") ELSE @,
          !.logs   = IF failMkdir \/ failAppend THEN @
                     ELSE [@ EXCEPT ![file] = Append(@, url)],
          !.failed = @ \/ failMkdir \/ failAppend]

\* an entry of taskResults that is null / undefined
NullResult == [type |-> "null"]

\* a loop that ends at an entry that is null instead of passing over it
RECURSIVE ProcessFrom_BreaksOnNull(_, _, _, _)
ProcessFrom_BreaksOnNull(results, i, st, fault) ==
    IF i > Len(results) THEN st
    ELSE LET r  == results[i]
             f  == IF fault.at = i THEN fault.kind ELSE "none"
         IN CASE r.type = "null"    -> [st EXCEPT !.warned = TRUE]
              [] r.type = "success" ->
                    ProcessFrom_BreaksOnNull(results, i + 1,
                        [st EXCEPT !.successfulResults = Append(@, r.data)], fault)
              [] r.type = "no_data" ->
                    ProcessFrom_BreaksOnNull(results, i + 1,
                        LogErrorUrl([st EXCEPT !.warned = TRUE], r.url, "no_prebid", f), fault)
              [] OTHER ->
                    ProcessFrom_BreaksOnNull(results, i + 1,
                        LogErrorUrl(st, r.url, ErrorTypeForFile(r.error), f), fault)

\* the for-of loop of processAndLogTaskResults from position i on; the file
\* system fails (once) while the entry at position fault.at is logged
RECURSIVE ProcessFrom(_, _, _, _)
ProcessFrom(results, i, st, fault) ==
    IF i > Len(results) THEN st
    ELSE LET r  == results[i]
             f  == IF fault.at = i THEN fault.kind ELSE "none"
             st1 == CASE r.type = "null"    -> [st EXCEPT !.warned = TRUE]
                      [] r.type = "success" ->
                            [st EXCEPT !.successfulResults = Append(@, r.data)]
                      [] r.type = "no_data" ->
                            LogErrorUrl([st EXCEPT !.warned = TRUE], r.url, "no_prebid", f)
                      [] OTHER ->
                            LogErrorUrl(st, r.url, ErrorTypeForFile(r.error), f)
         IN ProcessFrom(results, i + 1, st1, fault)

\* the outcomes the handler can be given for one URL
HandlerResultsFor(url) ==
    {[type |-> "success", data |-> PageDataOf(url, "data")],
     [type |-> "no_data", url |-> url]}
      \cup {[type |-> "error", url |-> url, error |-> e] : e \in HandlerErrors}

HandlerResults == UNION {HandlerResultsFor(u) : u \in HandlerUrls} \cup {NullResult}

\* the lists a call is given: at most MaxBatch entries, one outcome per URL,
\* at most one entry that is null
HandlerBatches ==
    {rs \in UNION {[1..n -> HandlerResults] : n \in 0..MaxBatch} :
        \A i, j \in DOMAIN rs :
            i # j => /\ rs[i] # NullResult \/ rs[j] # NullResult
                     /\ (rs[i] # NullResult /\ rs[j] # NullResult)
                           => ResultUrl(rs[i]) # ResultUrl(rs[j])}

\* where the file system fails during a call: nowhere, or in the logErrorUrl
\* call for the entry at position `at`
LogFaultsOf(results) ==
    {[at |-> 0, kind |-> "none"]}
        \cup [at : 1..Len(results), kind : LogFaults \ {"none"}]

\* processAndLogTaskResults(taskResults, logger, 'errors')
ProcessAndLogTaskResults ==
    \E results \in HandlerBatches :
    \E fault \in LogFaultsOf(results) :
        /\ call.op = "none"
        /\ LET st0 == [dirs |-> dirs, logs |-> errorLogs, failed |-> FALSE,
                       warned |-> FALSE, successfulResults |-> <<>>]
               st  == IF Len(results) = 0 THEN st0
                      ELSE ProcessFrom(results, 1, st0, fault)
           IN /\ dirs' = st.dirs
              /\ errorLogs' = st.logs
              /\ call' = [op |-> "processAndLogTaskResults", raised |-> FALSE,
                          warned |-> st.warned, fsError |-> st.failed,
                          returned |-> st.successfulResults, args |-> results]
        /\ UNCHANGED <<today, store, inputFile>>
        /\ UNCHANGED pipeVars
        /\ UNCHANGED engineVars

\* the state the results-handler functions are called in: no run in progress
InitHandler ==
    /\ options = [puppeteerType |-> "vanilla", concurrency |-> 1, chunkSize |-> 0,
                  source |-> "txt", range |-> NoRange]
    /\ ppc = "off"
    /\ allUrls = <<>>
    /\ urlsToProcess = <<>>
    /\ pc = [m \in Modes |-> "off"]
    /\ InitEngineVars
    /\ saves = 0
    /\ call = NoCall

\* The function is applied once to a list of outcomes, in an errors directory
\* that does not exist yet or that earlier runs have left lines in.
InitLogs ==
    /\ InitHandler
    /\ today = 1
    /\ store = [p \in StorePaths |-> Absent]
    /\ \E old \in SUBSET ErrorFiles :
          /\ errorLogs = [f \in ErrorFiles |-> IF f \in old THEN <<"old">> ELSE <<>>]
          /\ dirs \in IF old = {} THEN {{}, {"errors"}} ELSE {{"errors"}}
    /\ inputFile = [exists |-> FALSE, lines |-> <<>>]

NextLogs == ProcessAndLogTaskResults

SpecLogs == InitLogs /\ [][NextLogs]_vars

(***************************************************************************)
(* results-handler.ts: updateInputFile.  The file is the list of its       *)
(* lines as they stand on disk: a line can be a URL, a URL with blanks     *)
(* around it, or blank.  The same call is made up to twice.                *)
(***************************************************************************)
\* String.prototype.trim on one line
TrimLine(line) ==
    CASE line = " A " -> "A"
      [] line = " "   -> ""
      [] OTHER        -> line

\* successfullyProcessedUrlsInScope: taskResult && taskResult.type ===
\* 'success' && taskResult.data.url && scope.includes(taskResult.data.url)
SuccessInScope(scope, results) ==
    {r.data.url : r \in {x \in Range(results) :
                            x.type = "success" /\ x.data.url \in Range(scope)}}

\* a version that drops the line of every success, in the scope or not
FinalUrlsToWrite_AnySuccess(file, scope, results) ==
    LET originalUrls ==
            SelectSeq([i \in DOMAIN file.lines |-> TrimLine(file.lines[i])],
                      LAMBDA line : line # "")
        succeeded == {r.data.url : r \in {x \in Range(results) : x.type = "success"}}
    IN IF file.exists
       THEN SelectSeq(originalUrls, LAMBDA url : url \notin succeeded)
       ELSE SelectSeq(scope, LAMBDA url : url \notin succeeded)

\* a version that writes the whole scope into a file it has to create
FinalUrlsToWrite_WholeScope(file, scope, results) ==
    IF file.exists
    THEN LET originalUrls ==
                 SelectSeq([i \in DOMAIN file.lines |-> TrimLine(file.lines[i])],
                           LAMBDA line : line # "")
         IN SelectSeq(originalUrls,
                      LAMBDA url : url \in Range(scope)
                                      => url \notin SuccessInScope(scope, results))
    ELSE scope

\* a version that adds what remains of the scope to the lines it keeps
FinalUrlsToWrite_Appends(file, scope, results) ==
    LET originalUrls ==
            SelectSeq([i \in DOMAIN file.lines |-> TrimLine(file.lines[i])],
                      LAMBDA line : line # "")
    IN originalUrls
         \o SelectSeq(scope, LAMBDA url : url \notin SuccessInScope(scope, results))

\* finalUrlsToWrite: the lines of the file that are not successes of the
\* scope, or, for a file that is not there, the scope without its successes
FinalUrlsToWrite(file, scope, results) ==
    IF file.exists
    THEN LET originalUrls ==
                 SelectSeq([i \in DOMAIN file.lines |-> TrimLine(file.lines[i])],
                           LAMBDA line : line # "")
         IN SelectSeq(originalUrls,
                      LAMBDA url : url \in Range(scope)
                                      => url \notin SuccessInScope(scope, results))
    ELSE SelectSeq(scope, LAMBDA url : url \notin SuccessInScope(scope, results))

\* updateInputFile(inputFilepath, urlsInCurrentProcessingScope, taskResults,
\* logger) with the arguments drawn at the start; readFileSync or
\* writeFileSync may throw, which the catch logs.  call.read is what
\* readFileSync gave.
UpdateInputFile ==
    /\ call.op \in {"none", "updateInputFile"}
    /\ saves < 2
    /\ saves' = saves + 1
    /\ LET ext == call.args[1]
           scope == call.args[2]
           results == call.args[3]
       IN \E fault \in {"none", "read", "write"} :
            LET failRead  == ext = "txt" /\ inputFile.exists /\ fault = "read"
                failWrite == ext = "txt" /\ ~failRead /\ fault = "write"
                written   == ext = "txt" /\ ~failRead /\ ~failWrite
            IN /\ inputFile' = IF written
                               THEN [exists |-> TRUE,
                                     lines |-> FinalUrlsToWrite(inputFile, scope, results)]
                               ELSE inputFile
               /\ call' = [op |-> "updateInputFile", raised |-> FALSE,
                           warned |-> ext = "txt" /\ ~inputFile.exists,
                           fsError |-> failRead \/ failWrite,
                           read |-> IF failRead THEN <<>> ELSE inputFile.lines,
                           returned |-> <<>>, args |-> call.args]
    /\ UNCHANGED <<today, dirs, store, errorLogs>>
    /\ UNCHANGED <<options, ppc, allUrls, urlsToProcess>>
    /\ UNCHANGED engineVars

\* the file as some earlier writer left it, a scope of the run's URLs, and
\* outcomes for URLs of the scope and for "C", which no scope holds
InitReconcile ==
    LET lines == {"A", "B", "C", " A ", " "}
        outcomes == {[type |-> "success", data |-> PageDataOf("A", "data")],
                     [type |-> "success", data |-> PageDataOf("C", "data")],
                     [type |-> "no_data", url |-> "B"],
                     NullResult}
        scopes == {sc \in UNION {[1..n -> HandlerUrls] : n \in 0..Cardinality(HandlerUrls)} :
                      \A i, j \in DOMAIN sc : i # j => sc[i] # sc[j]}
    IN
    /\ options = [puppeteerType |-> "vanilla", concurrency |-> 1, chunkSize |-> 0,
                  source |-> "txt", range |-> NoRange]
    /\ ppc = "off"
    /\ allUrls = <<>>
    /\ urlsToProcess = <<>>
    /\ pc = [m \in Modes |-> "off"]
    /\ InitEngineVars
    /\ saves = 0
    /\ today = 1
    /\ store = [p \in StorePaths |-> Absent]
    /\ dirs = {}
    /\ errorLogs = [f \in ErrorFiles |-> <<>>]
    /\ inputFile \in {[exists |-> FALSE, lines |-> <<>>]}
          \cup [exists : {TRUE}, lines : UNION {[1..n -> lines] : n \in 0..MaxLines}]
    /\ \E ext \in {"txt", "csv"} : \E scope \in scopes :
          \E results \in UNION {[1..n -> outcomes] : n \in 0..MaxBatch} :
             call = [NoCall EXCEPT !.args = <<ext, scope, results>>]

NextReconcile == UpdateInputFile

SpecReconcile == InitReconcile /\ [][NextReconcile]_vars

(***************************************************************************)
(* UrlProcessor.processFileContent.  A content is a sequence of atoms: the  *)
(* two scheme prefixes, a domain-like word ("a.com"), a word of letters    *)
(* without a dot ("x"), a space, a newline, a double quote and a comma.  A *)
(* URL is the sequence of the atoms it is made of.                         *)
(***************************************************************************)
Schemes == {"http://", "https://"}
Whitespace == {" ", "\n"}
Quote == "\""
Atoms == Schemes \cup Whitespace \cup {"a.com", "x", Quote, ","}

\* the largest j >= from - 1 with content[from..j] all in S
RECURSIVE RunEnd(_, _, _)
RunEnd(content, from, S) ==
    IF from <= Len(content) /\ content[from] \in S
    THEN RunEnd(content, from + 1, S)
    ELSE from - 1

\* content.match(/(https?:\/\/[^\s"]+)/gi) from atom i on: a scheme and at
\* least one atom that is neither whitespace nor a double quote, as far as
\* such atoms go
RECURSIVE MatchUrls(_, _)
MatchUrls(content, i) ==
    IF i > Len(content) THEN <<>>
    ELSE LET e == RunEnd(content, i + 1, Atoms \ (Whitespace \cup {Quote})) IN
         IF content[i] \in Schemes /\ e > i
         THEN <<SubSeq(content, i, e)>> \o MatchUrls(content, e + 1)
         ELSE MatchUrls(content, i + 1)

\* content.match(schemelessDomainRegex) from atom i on, each match already
\* cleaned (trim, surrounding quotes removed).  A match is a boundary (the
\* start of the content, a whitespace or a quote), a run of word atoms with a
\* dot in it, and a boundary again (whitespace, quote or the end); the
\* boundary atoms belong to the match, so the next match starts after them.
RECURSIVE MatchDomains(_, _)
MatchDomains(content, i) ==
    IF i > Len(content) THEN <<>>
    ELSE LET boundary == Whitespace \cup {Quote}
             from == IF content[i] \in boundary THEN i + 1
                     ELSE IF i = 1 THEN 1 ELSE 0
             e    == RunEnd(content, from, {"a.com", "x"})
         IN IF /\ from > 0 /\ e >= from
               /\ "a.com" \in Range(SubSeq(content, from, e))
               /\ (e = Len(content) \/ content[e + 1] \in boundary)
            THEN <<SubSeq(content, from, e)>> \o MatchDomains(content, e + 2)
            ELSE MatchDomains(content, i + 1)

\* Set.prototype.add for each element of urls, in order: a Set keeps its
\* elements in insertion order, once each
RECURSIVE AddAll(_, _)
AddAll(extracted, urls) ==
    IF urls = <<>> THEN extracted
    ELSE AddAll(IF Head(urls) \in Range(extracted) THEN extracted
                ELSE Append(extracted, Head(urls)),
                Tail(urls))

\* String.prototype.trim on a sequence of atoms
RECURSIVE TrimAtoms(_)
TrimAtoms(t) ==
    IF t # <<>> /\ t[1] \in Whitespace THEN TrimAtoms(Tail(t))
    ELSE IF t # <<>> /\ t[Len(t)] \in Whitespace THEN TrimAtoms(SubSeq(t, 1, Len(t) - 1))
    ELSE t

\* JSON.parse(content) on these atoms: the only JSON text they can write is
\* one string literal, with whitespace around it and no line break inside
JsonParse(content) ==
    LET t == TrimAtoms(content) IN
    IF /\ Len(t) >= 2 /\ t[1] = Quote /\ t[Len(t)] = Quote
       /\ \A i \in 2..(Len(t) - 1) : t[i] \notin {Quote, "\n"}
    THEN [ok |-> TRUE, value |-> SubSeq(t, 2, Len(t) - 1)]
    ELSE [ok |-> FALSE, value |-> <<>>]

\* csv-parse/sync parse(content, {columns: false, skip_empty_lines: true}):
\* fields separated by commas, records by newlines, a field in double quotes
\* holding commas, newlines and doubled quotes; a quote inside an unquoted
\* field, text after a closing quote, an unclosed quote and records of
\* different lengths are errors.  st.at is the state of the parser: "start" of
\* a field, in an "unquoted" or "quoted" field, or "after" a closing quote.
CsvEndField(st) ==
    [st EXCEPT !.record = Append(st.record, st.field), !.field = <<>>, !.at = "start"]

CsvEndRecord(st) ==
    LET lineEmpty == st.record = <<>> /\ st.field = <<>> /\ st.at = "start"
        done == CsvEndField(st)
    IN IF lineEmpty THEN st
       ELSE [done EXCEPT !.records = Append(st.records, done.record), !.record = <<>>]

RECURSIVE CsvScan(_, _, _)
CsvScan(content, i, st) ==
    IF st.error THEN st
    ELSE IF i > Len(content)
    THEN IF st.at = "quoted" THEN [st EXCEPT !.error = TRUE] ELSE CsvEndRecord(st)
    ELSE LET c == content[i] IN
         CsvScan(content, i + 1,
            CASE st.at = "start" ->
                    IF c = Quote THEN [st EXCEPT !.at = "quoted"]
                    ELSE IF c = "," THEN CsvEndField(st)
                    ELSE IF c = "\n" THEN CsvEndRecord(st)
                    ELSE [st EXCEPT !.at = "unquoted", !.field = <<c>>]
              [] st.at = "unquoted" ->
                    IF c = Quote THEN [st EXCEPT !.error = TRUE]
                    ELSE IF c = "," THEN CsvEndField(st)
                    ELSE IF c = "\n" THEN CsvEndRecord(st)
                    ELSE [st EXCEPT !.field = Append(@, c)]
              [] st.at = "quoted" ->
                    IF c = Quote THEN [st EXCEPT !.at = "after"]
                    ELSE [st EXCEPT !.field = Append(@, c)]
              [] OTHER ->
                    IF c = Quote THEN [st EXCEPT !.at = "quoted", !.field = Append(@, c)]
                    ELSE IF c = "," THEN CsvEndField(st)
                    ELSE IF c = "\n" THEN CsvEndRecord(st)
                    ELSE [st EXCEPT !.error = TRUE])

CsvParse(content) ==
    LET st == CsvScan(content, 1, [at |-> "start", field |-> <<>>, record |-> <<>>,
                                   records |-> <<>>, error |-> FALSE])
    IN IF st.error \/ \E r \in Range(st.records) : Len(r) # Len(st.records[1])
       THEN [ok |-> FALSE, records |-> <<>>]
       ELSE [ok |-> TRUE, records |-> st.records]

\* for (const record of records): record[0].trim(), kept if it
\* startsWith('http://') or startsWith('https://')
CsvUrls(records) ==
    LET firsts == [i \in DOMAIN records |-> TrimAtoms(records[i][1])] IN
    SelectSeq(firsts, LAMBDA url : url # <<>> /\ url[1] \in Schemes)

\* the extensions fileName.endsWith tells apart
Extensions == {"txt", "md", "json", "csv", "other"}

\* a processFileContent that gives up on a file it cannot parse
ProcessFileContent_NoFallback(ext, content) ==
    LET fqdnMatches == AddAll(<<>>, MatchUrls(content, 1)) IN
    CASE ext \in {"txt", "md"} ->
            LET domains == MatchDomains(content, 1) IN
            AddAll(fqdnMatches, [i \in DOMAIN domains |-> <<"https://">> \o domains[i]])
      [] ext = "json" ->
            LET jsonData == JsonParse(content) IN
            IF jsonData.ok THEN AddAll(fqdnMatches, MatchUrls(jsonData.value, 1))
            ELSE <<>>
      [] ext = "csv" ->
            LET parsed == CsvParse(content) IN
            IF parsed.ok THEN AddAll(fqdnMatches, CsvUrls(parsed.records))
            ELSE <<>>
      [] OTHER -> fqdnMatches

\* processFileContent(fileName, content): Array.from(extractedUrls)
ProcessFileContent(ext, content) ==
    LET fqdnMatches == AddAll(<<>>, MatchUrls(content, 1)) IN
    CASE ext \in {"txt", "md"} ->
            LET domains == MatchDomains(content, 1) IN
            AddAll(fqdnMatches, [i \in DOMAIN domains |-> <<"https://">> \o domains[i]])
      [] ext = "json" ->
            LET jsonData == JsonParse(content) IN
            IF jsonData.ok THEN AddAll(fqdnMatches, MatchUrls(jsonData.value, 1))
            ELSE fqdnMatches
      [] ext = "csv" ->
            LET parsed == CsvParse(content) IN
            IF parsed.ok THEN AddAll(fqdnMatches, CsvUrls(parsed.records))
            ELSE fqdnMatches
      [] OTHER -> fqdnMatches

\* logger.warn is called: in the catch of JSON.parse, in the catch of the CSV
\* parse, or for a CSV record whose first field is neither empty nor http(s)
ProcessFileContentWarns(ext, content) ==
    CASE ext = "json" -> ~JsonParse(content).ok
      [] ext = "csv" ->
            LET parsed == CsvParse(content) IN
            \/ ~parsed.ok
            \/ \E i \in DOMAIN parsed.records :
                  LET url == TrimAtoms(parsed.records[i][1]) IN
                  url # <<>> /\ url[1] \notin Schemes
      [] OTHER -> FALSE

Contents == UNION {[1..n -> Atoms] : n \in 0..MaxContentLen}

\* processFileContent applied to the file drawn at the start
ProcessFileContentCall ==
    /\ call.op = "none"
    /\ call' = [call EXCEPT !.op = "processFileContent",
                            !.warned = ProcessFileContentWarns(call.args[1], call.args[2]),
                            !.returned = ProcessFileContent(call.args[1], call.args[2])]
    /\ UNCHANGED <<today, dirs, store, errorLogs, inputFile>>
    /\ UNCHANGED pipeVars
    /\ UNCHANGED engineVars

\* no run in progress, nothing on disk
Idle ==
    /\ options = [puppeteerType |-> "vanilla", concurrency |-> 1, chunkSize |-> 0,
                  source |-> "txt", range |-> NoRange]
    /\ ppc = "off"
    /\ allUrls = <<>>
    /\ urlsToProcess = <<>>
    /\ pc = [m \in Modes |-> "off"]
    /\ InitEngineVars
    /\ saves = 0
    /\ today = 1
    /\ store = [p \in StorePaths |-> Absent]
    /\ dirs = {}
    /\ errorLogs = [f \in ErrorFiles |-> <<>>]
    /\ inputFile = [exists |-> FALSE, lines |-> <<>>]

InitExtract ==
    /\ Idle
    /\ \E ext \in Extensions : \E content \in Contents :
          call = [NoCall EXCEPT !.args = <<ext, content>>]

NextExtract == ProcessFileContentCall

SpecExtract == InitExtract /\ [][NextExtract]_vars

(***************************************************************************)
(* UrlProcessor.fetchUrlsFromGitHub.  GitHub is outside the repository:    *)
(* the model draws what each fetch does (a body, a non-success status, an  *)
(* exception) and what the listing holds.                                  *)
(***************************************************************************)
\* the bodies a fetched file can have: one URL, or two on two lines
FetchContents ==
    {<<"http://", "a.com">>,
     <<"http://", "a.com", "\n", "http://", "x">>,
     <<"http://", "x", "\n", "https://", "a.com">>}

\* what fetch(url) does for a file: fileResponse.ok with a body, a status
\* that is not ok, or a rejection
Downloads ==
    [status : {"ok"}, content : FetchContents]
        \cup [status : {"notok", "throws"}, content : {<<>>}]

\* an item of the listing: file.type, the extension file.name ends with, and
\* what fetch(file.download_url) does
ListingEntries ==
    [type : {"file"}, ext : {"txt"}, download : Downloads]
        \cup [type : {"file", "dir"}, ext : {"txt", "other"},
              download : {[status |-> "ok", content |-> <<"http://", "x">>]}]

Listings == UNION {[1..n -> ListingEntries] : n \in 0..MaxFiles}

\* numUrls: left undefined, or a number
NumUrls == {[given |-> FALSE, value |-> 0]} \cup [given : {TRUE}, value : 0..MaxCount]

\* the reference and what GitHub does for it: a direct file link (/blob/), a
\* repository root, or a reference that is neither
FetchWorlds ==
    LET unused == {[status |-> "ok", content |-> <<>>]} IN
    [shape : {"blob"}, ext : {"txt", "csv"}, direct : Downloads,
     listing : {"none"}, files : {<<>>}]
        \cup [shape : {"root"}, ext : {"txt"}, direct : unused,
              listing : {"throws", "notok", "notlist"}, files : {<<>>}]
        \cup [shape : {"root"}, ext : {"txt"}, direct : unused,
              listing : {"files"}, files : Listings]
        \cup [shape : {"malformed"}, ext : {"txt"}, direct : unused,
              listing : {"none"}, files : {<<>>}]

\* numUrls && ...: undefined and 0 are both falsy
Limited(numUrls) == numUrls.given /\ numUrls.value # 0

\* a fetch that lets its failures escape to the caller
FetchFailure_Raises(urls) ==
    [returned |-> <<>>, loggedError |-> TRUE, warned |-> FALSE, raised |-> TRUE,
     collected |-> <<>>, fetched |-> {}]

\* the early `return []` after logger.error, and the outer catch: an empty
\* result, an error in the log, nothing raised
FetchFailure(urls) ==
    [returned |-> <<>>, loggedError |-> TRUE, warned |-> FALSE, raised |-> FALSE,
     collected |-> <<>>, fetched |-> {}]

\* urlsFromFile.forEach(url => { if (!numUrls || allExtractedUrls.size <
\* numUrls) allExtractedUrls.add(url) })
RECURSIVE AddUpTo(_, _, _)
AddUpTo(all, urls, numUrls) ==
    IF urls = <<>> THEN all
    ELSE AddUpTo(IF ~Limited(numUrls) \/ Len(all) < numUrls.value
                 THEN AddAll(all, <<Head(urls)>>) ELSE all,
                 Tail(urls), numUrls)

\* a file loop that gives up at the first file it cannot fetch
RECURSIVE FetchFiles_AbortsOnFailure(_, _, _, _)
FetchFiles_AbortsOnFailure(files, i, numUrls, acc) ==
    IF i > Len(files) \/ (Limited(numUrls) /\ Len(acc.all) >= numUrls.value) THEN acc
    ELSE LET file == files[i] IN
         IF file.type = "file" /\ file.ext # "other"
         THEN CASE file.download.status = "ok" ->
                      FetchFiles_AbortsOnFailure(files, i + 1, numUrls,
                          [acc EXCEPT !.all = AddUpTo(@, ProcessFileContent(file.ext,
                                                          file.download.content), numUrls),
                                      !.fetched = @ \cup {i}])
                [] file.download.status = "notok" ->
                      [acc EXCEPT !.warned = TRUE, !.fetched = @ \cup {i}]
                [] OTHER -> [acc EXCEPT !.loggedError = TRUE, !.fetched = @ \cup {i}]
         ELSE FetchFiles_AbortsOnFailure(files, i + 1, numUrls, acc)

\* for (const file of files) { ... } from the i-th item on
RECURSIVE FetchFiles(_, _, _, _)
FetchFiles(files, i, numUrls, acc) ==
    IF i > Len(files) \/ (Limited(numUrls) /\ Len(acc.all) >= numUrls.value) THEN acc
    ELSE LET file == files[i] IN
         FetchFiles(files, i + 1, numUrls,
            IF file.type = "file" /\ file.ext # "other"
            THEN CASE file.download.status = "ok" ->
                         [acc EXCEPT !.all = AddUpTo(@, ProcessFileContent(file.ext,
                                                         file.download.content), numUrls),
                                     !.fetched = @ \cup {i}]
                   [] file.download.status = "notok" ->
                         [acc EXCEPT !.warned = TRUE, !.fetched = @ \cup {i}]
                   [] OTHER -> [acc EXCEPT !.loggedError = TRUE, !.fetched = @ \cup {i}]
            ELSE acc)

\* return numUrls && uniqueUrlsArray.length > numUrls
\*            ? uniqueUrlsArray.slice(0, numUrls) : uniqueUrlsArray
FetchResult(acc, numUrls) ==
    [returned |-> IF Limited(numUrls) /\ Len(acc.all) > numUrls.value
                  THEN Slice(acc.all, 0, numUrls.value) ELSE acc.all,
     loggedError |-> acc.loggedError, warned |-> acc.warned, raised |-> FALSE,
     collected |-> acc.all, fetched |-> acc.fetched]

\* fetchUrlsFromGitHub(repoUrl, numUrls)
FetchUrlsFromGitHub(world, numUrls) ==
    LET none == [all |-> <<>>, loggedError |-> FALSE, warned |-> FALSE, fetched |-> {}] IN
    CASE world.shape = "blob" ->
            IF world.direct.status = "ok"
            THEN FetchResult([none EXCEPT !.all =
                     AddAll(<<>>, ProcessFileContent(world.ext, world.direct.content))], numUrls)
            ELSE FetchFailure(<<>>)
      [] world.shape = "root" ->
            IF world.listing = "files"
            THEN FetchResult(FetchFiles(world.files, 1, numUrls, none), numUrls)
            ELSE FetchFailure(<<>>)
      [] OTHER -> FetchFailure(<<>>)

\* fetchUrlsFromGitHub applied to the reference drawn at the start
FetchUrlsFromGitHubCall ==
    /\ call.op = "none"
    /\ LET r == FetchUrlsFromGitHub(call.args[1], call.args[2]) IN
         call' = [op |-> "fetchUrlsFromGitHub", raised |-> r.raised, warned |-> r.warned,
                  fsError |-> FALSE, loggedError |-> r.loggedError,
                  collected |-> r.collected, fetched |-> r.fetched,
                  returned |-> r.returned, args |-> call.args]
    /\ UNCHANGED <<today, dirs, store, errorLogs, inputFile>>
    /\ UNCHANGED pipeVars
    /\ UNCHANGED engineVars

InitFetch ==
    /\ Idle
    /\ \E world \in FetchWorlds : \E numUrls \in NumUrls :
          call = [NoCall EXCEPT !.args = <<world, numUrls>>]

NextFetch == FetchUrlsFromGitHubCall

SpecFetch == InitFetch /\ [][NextFetch]_vars

(***************************************************************************)
(* prebidExplorer's range step on its own: a non-empty list and the parts  *)
(* of any range text are drawn.  A text with two '-', as "-2-3" or "2--3"  *)
(* (a bound written with a minus sign), splits into three parts, of which  *)
(* the destructuring takes the first two.                                  *)
(***************************************************************************)
RangeSplits ==
    RangeParts \cup {<<a, b, c>> : a \in RangeTokens, b \in RangeTokens, c \in RangeTokens}

\* step 2 of prebidExplorer applied to the list and the range drawn at the start
ApplyRangeCall ==
    /\ call.op = "none"
    /\ call' = [op |-> "applyRange", raised |-> FALSE,
                warned |-> RangeWarning(call.args[1], call.args[2]) # "none",
                warning |-> RangeWarning(call.args[1], call.args[2]),
                fsError |-> FALSE,
                returned |-> ApplyRange(call.args[1], call.args[2]), args |-> call.args]
    /\ UNCHANGED <<today, dirs, store, errorLogs, inputFile>>
    /\ UNCHANGED pipeVars
    /\ UNCHANGED engineVars

InitRange ==
    /\ Idle
    /\ \E n \in 1..MaxListLen : \E parts \in RangeSplits :
          call = [NoCall EXCEPT !.args = <<SubSeq(UrlNames, 1, n), parts>>]

NextRange == ApplyRangeCall

SpecRange == InitRange /\ [][NextRange]_vars

(***************************************************************************)
(* processPageTask on its own: one visit, whose page either raises an      *)
(* error with some message or returns what the in-page script found.       *)
(***************************************************************************)
MessageWords == {"went", "wrong", "net::ERR_TIMED_OUT"}

WordSeqs == UNION {[1..n -> MessageWords] : n \in 0..MaxMsgLen}

\* message bodies: words, with or without whitespace before and after them
MessageBodies ==
    {lead \o ws \o trail : lead \in {<<>>, <<Blank>>}, ws \in WordSeqs,
                           trail \in {<<>>, <<Blank>>}}
        \ {<<Blank, Blank>>}

\* pageError.message: missing, a body, or a body behind the prefix of a URL
VisitMessages ==
    MessageBodies
        \cup {ErrorPrefix(u) \o b : u \in HandlerUrls,
                 b \in {c \in MessageBodies \ {<<>>} : c[1] # Blank \/ c = <<Blank>>}}

\* what page.evaluate returns: the libraries found and the Prebid instances
VisitPageData ==
    [url : {Unset},
     libraries : {<<>>, <<"googletag">>, <<"apstag", "googletag">>},
     prebidInstances : {<<>>, <<"pbjs">>}]

Visits ==
    [raised : {TRUE}, message : VisitMessages, pageData : {PageDataOf(Unset, "no_data")}]
        \cup [raised : {FALSE}, message : {<<>>}, pageData : VisitPageData]

\* processPageTask({page, data: url}) applied to the visit drawn at the start
ProcessPageTaskCall ==
    /\ call.op = "none"
    /\ call' = [call EXCEPT !.op = "processPageTask",
                            !.returned = <<ProcessVisit(call.args[1], call.args[2])>>]
    /\ UNCHANGED <<today, dirs, store, errorLogs, inputFile>>
    /\ UNCHANGED pipeVars
    /\ UNCHANGED engineVars

InitClassify ==
    /\ Idle
    /\ \E url \in HandlerUrls : \E visit \in Visits :
          call = [NoCall EXCEPT !.args = <<url, visit>>]

NextClassify == ProcessPageTaskCall

SpecClassify == InitClassify /\ [][NextClassify]_vars

(***************************************************************************)
(* results-handler.ts: writeResultsToFile.                                 *)
(***************************************************************************)
MaxStoreLen == 3     \* records a day's store file can grow to

\* JSON.parse of a file's content: throws, or gives a value that is an array
\* or is not
ParseJson(content) ==
    [throws  |-> content.kind = "garbage",
     isArray |-> content.kind = "array",
     value   |-> content.recs]

\* path.join(baseOutputDir, `${monthShort}-${year}`, `${year}-${mm}-${dd}.json`)
WriteResultsPath == [dir |-> "outputDir/Mon-YYYY", day |-> today]

\* a merge that gives up the write of a file it cannot read as a list
MergedResults_RefusesCorrupt(content, readFails, resultsToSave) ==
    IF content.kind = "array" THEN content.recs \o resultsToSave ELSE <<>>

\* finalResults: the existing records followed by the new ones if the file
\* exists, can be read and parses to an array; the new ones alone otherwise
MergedResults(content, readFails, resultsToSave) ==
    IF content.kind = "absent" \/ readFails THEN resultsToSave
    ELSE LET existingData == ParseJson(content) IN
         IF ~existingData.throws /\ existingData.isArray
         THEN existingData.value \o resultsToSave
         ELSE resultsToSave

\* logger.warn is called: the file exists and is not taken over
MergeWarns(content, readFails) ==
    /\ content.kind # "absent"
    /\ readFails \/ ParseJson(content).throws \/ ~ParseJson(content).isArray

StoreFaults == {"none", "mkdir", "read", "write"}

\* the records a call can be asked to save: at most MaxBatch, one per URL
SaveBatches ==
    {rs \in UNION {[1..n -> {PageDataOf(u, "data") : u \in HandlerUrls}] : n \in 0..MaxBatch} :
        \A i, j \in DOMAIN rs : i # j => rs[i] # rs[j]}

\* writeResultsToFile(resultsToSave, 'outputDir', logger)
WriteResultsToFile ==
    \E resultsToSave \in SaveBatches, fault \in StoreFaults :
        /\ Len(store[WriteResultsPath].recs) + Len(resultsToSave) <= MaxStoreLen
        /\ IF Len(resultsToSave) = 0
           THEN /\ UNCHANGED <<dirs, store>>
                /\ call' = [op |-> "writeResultsToFile", raised |-> FALSE,
                            warned |-> FALSE, fsError |-> FALSE,
                            returned |-> <<>>, args |-> resultsToSave]
           ELSE LET content   == store[WriteResultsPath]
                    needDir   == WriteResultsPath.dir \notin dirs
                    failMkdir == needDir /\ fault = "mkdir"
                    readFails == ~failMkdir /\ content.kind # "absent" /\ fault = "read"
                    failWrite == ~failMkdir /\ fault = "write"
                IN /\ dirs' = IF needDir /\ ~failMkdir
                              THEN MkdirRecursive(dirs, WriteResultsPath.dir) ELSE dirs
                   /\ store' = IF failMkdir \/ failWrite THEN store
                               ELSE [store EXCEPT ![WriteResultsPath] =
                                        Stringify(MergedResults(content, readFails,
                                                                resultsToSave))]
                   /\ call' = [op |-> "writeResultsToFile", raised |-> FALSE,
                               warned |-> ~failMkdir /\ MergeWarns(content, readFails),
                               fsError |-> failMkdir \/ failWrite,
                               returned |-> <<>>, args |-> resultsToSave]
        /\ UNCHANGED <<today, errorLogs, inputFile>>
        /\ UNCHANGED pipeVars
        /\ UNCHANGED engineVars

\* a day's store file as earlier writers may have left it
HandlerStoreContents == {Absent, Stringify(<<OldRecord>>), Garbage, NotArray}

\* The calls of one day: the files of earlier days hold what was written then,
\* the day's own file is as an earlier writer left it.
InitStore ==
    /\ InitHandler
    /\ today \in Days
    /\ \E c \in HandlerStoreContents :
          /\ store = [p \in StorePaths |->
                         IF p.dir # "outputDir/Mon-YYYY" \/ p.day > today THEN Absent
                         ELSE IF p.day = today THEN c
                         ELSE Stringify(<<OldRecord>>)]
          /\ dirs = IF c = Absent /\ today = 1 THEN {}
                    ELSE {"outputDir", "outputDir/Mon-YYYY"}
    /\ errorLogs = [f \in ErrorFiles |-> <<>>]
    /\ inputFile = [exists |-> FALSE, lines |-> <<>>]

NextStore == WriteResultsToFile

SpecStore == InitStore /\ [][NextStore]_vars

(***************************************************************************)
(* Properties of the task execution engine.                                *)
(***************************************************************************)
\* number of outcomes mode m has returned for url
OutcomesFor(m, url) ==
    Cardinality({i \in DOMAIN taskResults[m] : ResultUrl(taskResults[m][i]) = url})

\* the URLs a visit was started for: the sequential runner asked the browser
\* for a page, the pooled runner handed the URL to cluster.queue
Dispatched(m) ==
    IF m = "vanilla"
    THEN {u \in Range(urlsToProcess) : behaviour[u] # Unset}
    ELSE processedUrlsSet[m]

\* C1: when runTasks returns, in either mode and whatever the visits did, the
\* returned list holds exactly one outcome for every URL that was dispatched.
C1_OneOutcomePerDispatchedUrl ==
    \A m \in Modes :
        pc[m] = "returned" => \A u \in Dispatched(m) : OutcomesFor(m, u) = 1

\* C4: in a chunked run the persister has been invoked for every earlier chunk
\* before a visit of the next chunk is under way, and once per chunk overall.
C4_PersistedBeforeNextChunk ==
    /\ \A m \in Modes :
          (chunksRun[m] >= 2 /\ pc[m] \in {"process", "closePage", "allSettled"})
              => saves >= chunksRun[m] - 1
    /\ (ppc = "done" /\ options.chunkSize > 0) => saves = chunksRun[Mode]

\* C5: in sequential mode a failure at any step of one visit (opening the page,
\* navigating, extracting, closing the page) does not end the loop: when the
\* browser of the chunk is about to be closed every URL of the chunk has been
\* visited and has its outcome.
C5_SequentialFailureDoesNotAbort ==
    pc["vanilla"] = "closeBrowser" =>
        \A u \in Range(ChunkOf("vanilla")) :
            behaviour[u] # Unset /\ OutcomesFor("vanilla", u) = 1

\* C6: in pooled mode a URL whose queued job is rejected gets exactly one
\* outcome, the QUEUE_ERROR_OR_TASK_FAILED failure, and the rejection takes
\* nothing from the other URLs of the batch: every job that delivered a value
\* has that value as its one outcome.
C6_QueueFailureIsAFailureOutcome ==
    pc["cluster"] \in {"idle", "close", "catchClose"} =>
        \A u \in Range(QueuedUrls("cluster")) :
            /\ job[u] = "rejected" =>
                  /\ OutcomesFor("cluster", u) = 1
                  /\ Count(taskResults["cluster"], {QueueErrorResult(u)}) = 1
            /\ job[u] = "value" =>
                  /\ OutcomesFor("cluster", u) = 1
                  /\ Count(taskResults["cluster"],
                           {ProcessPageTask(u, behaviour[u])}) = 1

\* one job of the chunk was rejected, another delivered its value, and the
\* outcomes have been collected
C6_Witness ==
    /\ pc["cluster"] = "idle"
    /\ \E u, v \in Range(QueuedUrls("cluster")) :
          u # v /\ job[u] = "rejected" /\ job[v] = "value"

\* the first URL of every chunk of the batch
ChunkHeads ==
    {urlsToProcess[i] : i \in {j \in DOMAIN urlsToProcess :
        IF options.chunkSize > 0 THEN (j - 1) % options.chunkSize = 0 ELSE j = 1}}

\* The two runs met the same conditions: the sequential runner got its browser
\* for every chunk (it reached the chunk's first URL), and the pool took every
\* job to a worker whose result it delivered, or lost it only because the page
\* could not be opened.
SameConditions ==
    /\ \A u \in ChunkHeads :
          OutcomesFor("vanilla", u) = 1 \/ behaviour[u] = "open_fail"
    /\ \A u \in Range(urlsToProcess) :
          /\ OutcomesFor("cluster", u) = 1
          /\ QueueErrorResult(u) \in Range(taskResults["cluster"])
                => behaviour[u] = "open_fail"

\* C7: for the same batch and the same per-URL behaviour the two modes return
\* the same multiset of outcomes and the same attempted-URL set.
C7_ModesAgree ==
    (pc["vanilla"] = "returned" /\ pc["cluster"] = "returned" /\ SameConditions) =>
        /\ \A r \in Range(taskResults["vanilla"]) \cup Range(taskResults["cluster"]) :
              Count(taskResults["vanilla"], {r}) = Count(taskResults["cluster"], {r})
        /\ processedUrlsSet["vanilla"] = processedUrlsSet["cluster"]

\* the URL the sequential runner is visiting
VanillaInFlight ==
    IF pc["vanilla"] \in {"process", "closePage"}
    THEN {ChunkOf("vanilla")[k]} ELSE {}

\* C13: at any moment at most options.concurrency visits are in flight in
\* pooled mode, and at most one in sequential mode.
C13_InFlightBounded ==
    /\ Cardinality(InFlight) <= options.concurrency
    /\ Cardinality(VanillaInFlight) <= 1

\* the pool has one worker, it is busy, and another URL waits in the queue
C13_Witness ==
    /\ pc["cluster"] = "allSettled"
    /\ options.concurrency = 1
    /\ Cardinality(InFlight) = 1
    /\ \E v \in Urls : job[v] = "queued"

\* C14: the browser / worker pool of a chunk is closed on every path out of
\* the chunk, a failure of task registration, queueing or waiting for idle
\* included: whenever the runner is not inside a chunk -- between two chunks,
\* or after the run has returned or raised -- no context is left open.
C14_ContextClosedOutsideChunk ==
    \A m \in Modes :
        pc[m] \in {"runTasks", "returned", "threw"} => ctx[m] # "open"

\* C15: a visit whose navigation timeout expires becomes a failure outcome of
\* its own URL and of no other: its siblings in the pool deliver their own
\* outcomes, and the sequential loop goes on to the next URL.
C15_TimeoutIsLocalFailure ==
    /\ \A m \in Modes : \A i \in DOMAIN taskResults[m] :
          LET r == taskResults[m][i] IN
          (behaviour[ResultUrl(r)] = "timeout" /\ r # QueueErrorResult(ResultUrl(r)))
              => (r.type = "error" /\ r.url = ResultUrl(r))
    /\ pc["cluster"] \in {"idle", "close", "catchClose"} =>
          \A u, v \in Range(QueuedUrls("cluster")) :
              (u # v /\ behaviour[u] = "timeout" /\ job[u] = "value" /\ job[v] = "value")
                  => /\ OutcomesFor("cluster", u) = 1
                     /\ OutcomesFor("cluster", v) = 1
                     /\ ProcessPageTask(v, behaviour[v]) \in Range(taskResults["cluster"])
    /\ (pc["vanilla"] = "closeBrowser" /\ k <= Len(ChunkOf("vanilla")))
          => behaviour[ChunkOf("vanilla")[k]] \in {"open_fail", "close_fail"}

\* in the pool one visit timed out and a sibling delivered its data
C15_Witness ==
    /\ pc["cluster"] = "idle"
    /\ \E u, v \in Range(QueuedUrls("cluster")) :
          /\ behaviour[u] = "timeout" /\ job[u] = "value"
          /\ behaviour[v] = "data" /\ job[v] = "value"
          /\ \E i, j \in DOMAIN taskResults["cluster"] :
                /\ taskResults["cluster"][i].type = "error"
                /\ taskResults["cluster"][i].url = u
                /\ taskResults["cluster"][j].type = "success"
                /\ taskResults["cluster"][j].data.url = v


\* C28: when the execution context of a chunk cannot be set up -- the pool
\* launch, the task registration or the browser launch fails -- and the
\* failure leaves the engine, nothing acquired so far is left open.
C28_SetupFailureReleases ==
    [][\A m \in Modes :
          (pc[m] \in {"launch", "task"} /\ pc'[m] = "threw")
              => ctx'[m] \in {"none", "closed"}]_vars


\* C30: within one run processPageTask is started at most once for a URL: a
\* worker of the pool takes a URL that no visit was made of before, and the
\* sequential loop visits a URL that has no outcome yet -- whether the earlier
\* URLs failed, found nothing or succeeded, in this chunk or an earlier one.
C30_VisitedAtMostOnce ==
    [][/\ \A u \in Urls :
             (job[u] = "queued" /\ job'[u] = "running")
                 => (behaviour[u] = Unset /\ OutcomesFor("cluster", u) = 0)
       /\ (pc["vanilla"] = "process" /\ pc'["vanilla"] = "closePage")
             => OutcomesFor("vanilla", ChunkOf("vanilla")[k]) = 0]_vars

\* a run of several chunks has returned with a URL that failed or found
\* nothing in an earlier chunk, and that URL has its single outcome
C30_Witness ==
    \E m \in Modes :
        /\ pc[m] = "returned" /\ chunksRun[m] >= 2
        /\ Len(taskResults[m]) >= 2
        /\ taskResults[m][1].type \in {"error", "no_data"}
        /\ OutcomesFor(m, ResultUrl(taskResults[m][1])) = 1

(***************************************************************************)
(* Properties of the pipeline's persistence step.                          *)
(***************************************************************************)
\* prebidExplorer's call of the persister
PersistStep == ppc = "running" /\ ppc' = "done"

\* C2: when the day's store file holds a valid list and a write with new
\* successes goes through, the file afterwards holds the old records followed
\* by the new ones.
C2_StoreWriteAppends ==
    [][(/\ PersistStep
        /\ store[SaveResultsPath].kind = "array"
        /\ SuccessData(taskResults[Mode]) # <<>>
        /\ ~call'.fsError)
          => store'[SaveResultsPath] =
                Stringify(store[SaveResultsPath].recs \o SuccessData(taskResults[Mode]))]_vars

\* the lines reconciliation is to leave: a line goes iff it is in scope and
\* its outcome is a success
Reconciled(lines, scope, successes) ==
    SelectSeqBy(lines, Range(lines) \ (Range(scope) \cap successes))

\* C3: reconciling the .txt input file keeps every line outside the scope of
\* the run, removes an in-scope line iff its outcome is a success, and keeps
\* the order of the lines that stay.
C3_ReconcileKeepsOutOfScope ==
    [][(PersistStep /\ options.source = "txt" /\ ~call'.fsError)
          => inputFile'.lines =
                Reconciled(inputFile.lines, urlsToProcess,
                           SuccessUrls(taskResults[Mode]))]_vars

\* C8: after the pipeline has persisted a run, the URL of every visit that
\* failed on DNS is in the navigation-error log, the URL of every visit that
\* failed otherwise in the processing-error log, and the URL of every visit
\* that found nothing in the no-signal log.
C8_PipelineLogsEachClass ==
    (ppc = "done" /\ ~call.fsError) =>
        \A r \in Range(taskResults[Mode]) :
            /\ (r.type = "error" /\ behaviour[r.url] = "dns")
                  => r.url \in Range(errorLogs["navigation_errors.txt"])
            /\ (r.type = "error" /\ behaviour[r.url] = "other")
                  => r.url \in Range(errorLogs["error_processing.txt"])
            /\ r.type = "no_data"
                  => r.url \in Range(errorLogs["no_prebid.txt"])

\* C11: a persist step with no success outcome skips the store write
\* entirely: no store file is created or modified and no directory is created.
C11_NoSuccessNoStoreWrite ==
    [][(PersistStep /\ SuccessData(taskResults[Mode]) = <<>>)
          => (store' = store /\ dirs' = dirs)]_vars

\* C12: when the write of the store file fails, the persist call still returns
\* normally and still reconciles the input file: afterwards no URL with a
\* success outcome is left in it.
C12_StoreFailureStillReconciles ==
    [][(/\ PersistStep
        /\ options.source = "txt"
        /\ SuccessData(taskResults[Mode]) # <<>>
        /\ store[SaveResultsPath] # Stringify(SuccessData(taskResults[Mode]))
        /\ store'[SaveResultsPath] = store[SaveResultsPath])
          => /\ ~call'.raised
             /\ \A u \in SuccessUrls(taskResults[Mode]) :
                   u \notin Range(inputFile'.lines)]_vars

\* C25: the input file is rewritten only by the persistence step of a run
\* whose URL source is a local .txt file; a run fed from a repository, or from
\* a .csv/.json file, never writes it.
C25_ReconcileOnlyTxtSource ==
    [][inputFile' # inputFile
          => (PersistStep /\ UrlSourceType(options.source) = "InputFile"
                          /\ options.source = "txt")]_vars

\* a run fed from a file of another format has persisted successes and the
\* file is as it was read
C25_Witness ==
    /\ options.source = "csv"
    /\ ppc = "done" /\ ~call.fsError
    /\ Len(call.returned) > 0
    /\ inputFile = [exists |-> TRUE, lines |-> SourceUrls]

\* C26: when a repository reference and an input file are both supplied, the
\* URLs come from the repository alone: nothing of the input file is loaded,
\* and the run never writes it.
C26_RepositoryWinsOverFile ==
    options.source = "both" =>
        /\ inputFile = [exists |-> TRUE, lines |-> IgnoredFileLines]
        /\ Range(allUrls) \cap Range(IgnoredFileLines) = {}
        /\ ppc # "start" => allUrls \in {SourceUrls, <<>>}

\* such a run has visited the repository's URLs and persisted a success
C26_Witness ==
    /\ options.source = "both"
    /\ ppc = "done" /\ ~call.fsError
    /\ allUrls = SourceUrls
    /\ Len(call.returned) > 0

\* C27: a line another process added to the input file after the run read
\* it, with a URL outside the scope of the run, is still in the file after
\* the run's reconciliation.
C27_AddedLineSurvives ==
    [][(AddedLine \in Range(inputFile.lines))
          => (AddedLine \in Range(inputFile'.lines))]_vars

C17_NoSourceEndsCleanly ==
    options.source = "none" => ppc # "threw"

\* C17, amended: with no URL source configured the run logs the condition and
\* raises 'No URL source specified.'; no chunk is processed and nothing is
\* persisted.
C17_NoSourceRaises ==
    (options.source = "none" /\ ppc # "start") =>
        /\ ppc = "threw"
        /\ \A m \in Modes : chunksRun[m] = 0 /\ pc[m] = "off"
        /\ saves = 0 /\ call = NoCall

C17_Witness ==
    options.source = "none" /\ ppc = "threw"

\* C18: when no URL is left to process -- the input file cannot be read, the
\* source yields nothing, the repository fetch fails, or the range empties the
\* list -- the run exits at once without raising: no visit is dispatched, the
\* store, the error logs and the input file stay as they are, and nothing
\* happens after the exit.
C18_EmptySetExitsEarly ==
    [][/\ (ppc = "start" /\ ppc' # "threw" /\ Len(urlsToProcess') = 0)
            => /\ ppc' = "exited"
               /\ UNCHANGED <<dirs, store, errorLogs, inputFile, call, saves>>
               /\ UNCHANGED engineVars
       /\ ppc # "exited"]_vars

\* the range has emptied a non-empty list and the run has left
C18_Witness ==
    /\ ppc = "exited"
    /\ Len(allUrls) > 0 /\ urlsToProcess = <<>>
    /\ \A m \in Modes : chunksRun[m] = 0

(***************************************************************************)
(* Properties of the range and of the chunk loop.                          *)
(***************************************************************************)
\* C19: a range "start-end" is 1-based and inclusive on both sides: for
\* 1 <= start <= end <= length the URLs to process are exactly the elements at
\* the original positions start..end, in order; a missing start stands for 1
\* and a missing end for the length of the list.
C19_RangeIsOneBasedInclusive ==
    (ppc # "start" /\ Len(allUrls) > 0) =>
        \A s \in 1..Len(allUrls) : \A e \in s..Len(allUrls) :
            /\ options.range = <<Digits[s + 1], Digits[e + 1]>>
                   => urlsToProcess = SubSeq(allUrls, s, e)
            /\ options.range \in {<<Digits[s + 1], "">>, <<Digits[s + 1]>>}
                   => urlsToProcess = SubSeq(allUrls, s, Len(allUrls))
            /\ options.range = <<"", Digits[e + 1]>>
                   => urlsToProcess = SubSeq(allUrls, 1, e)
            /\ options.range \in {<<"", "">>, <<"">>}
                   => urlsToProcess = allUrls

\* "2-3" on five URLs has given the second and the third
C19_Witness ==
    /\ Len(allUrls) = 5
    /\ options.range = <<"2", "3">>
    /\ urlsToProcess = <<"B", "C">>

\* the list and the range parts the range step was applied to
RangeUrls == call.args[1]
RangeGiven == call.args[2]

\* the numeral a range part is, -1 for a part that is none
NumeralOf(t) == IF ParseInt(t).nan THEN -1 ELSE ParseInt(t).val

\* the 1-based start and end a range resolves to: a missing start is 1, a
\* missing end the length of the list; -1 when the part is not a numeral
ResolvedStart == IF RangeGiven[1] = "" THEN 1 ELSE NumeralOf(RangeGiven[1])
ResolvedEnd ==
    IF Len(RangeGiven) < 2 \/ RangeGiven[2] = "" THEN Len(RangeUrls)
    ELSE NumeralOf(RangeGiven[2])

\* C31 as stated: when the resolved 1-based start is >= the resolved end, the
\* result is the tail of the list from position start to the last element.
C31_StartNotBeforeEndGivesTail ==
    (/\ call.op = "applyRange" /\ RangeGiven # NoRange
     /\ ResolvedStart >= 1 /\ ResolvedEnd >= 1
     /\ ResolvedStart >= ResolvedEnd)
        => call.returned = SubSeq(RangeUrls, ResolvedStart, Len(RangeUrls))

\* C31, amended: when the resolved 1-based start is greater than the resolved
\* end, the result is the tail of the list from position start to the last
\* element, with a warning when the start is within the list; when start and
\* end are the same position of the list, the result is that one element.
C31_StartAfterEndGivesTail ==
    (/\ call.op = "applyRange" /\ RangeGiven # NoRange
     /\ ResolvedStart >= 1 /\ ResolvedEnd >= 1)
        => /\ ResolvedStart > ResolvedEnd
                => /\ call.returned = SubSeq(RangeUrls, ResolvedStart, Len(RangeUrls))
                   /\ ResolvedStart <= Len(RangeUrls)
                         => call.warning = "start not before end"
           /\ (ResolvedStart = ResolvedEnd /\ ResolvedStart <= Len(RangeUrls))
                => call.returned = <<RangeUrls[ResolvedStart]>>

\* "4-2" on five URLs has given the fourth and the fifth
C31_Witness ==
    /\ call.op = "applyRange"
    /\ Len(RangeUrls) = 5 /\ RangeGiven = <<"4", "2">>
    /\ call.returned = <<"D", "E">>

\* a bound that is not a number, and a bound written with a minus sign: the
\* text "-n-m" (start -n) splits into "", n, m and "n--m" (end -m) into n, "", m
NonNumericBound ==
    RangeGiven[1] = "x" \/ (Len(RangeGiven) >= 2 /\ RangeGiven[2] = "x")

NegativeBound ==
    /\ Len(RangeGiven) = 3
    /\ \/ RangeGiven[1] = "" /\ NumeralOf(RangeGiven[2]) >= 1
       \/ /\ NumeralOf(RangeGiven[1]) >= 0 /\ RangeGiven[2] = ""
          /\ NumeralOf(RangeGiven[3]) >= 1

\* C32: with a non-numeric or a negative bound the range is ignored: the whole
\* list is processed and the invalid-range warning is made.
C32_BadBoundIgnoresRange ==
    (/\ call.op = "applyRange" /\ RangeGiven # NoRange
     /\ NonNumericBound \/ NegativeBound)
        => (call.returned = RangeUrls /\ call.warning = "invalid range")

\* the URLs of the results collected so far, in order
UrlsDone(m) == [i \in DOMAIN taskResults[m] |-> ResultUrl(taskResults[m][i])]

\* C37: after runTasks returns, in either mode, the attempted-URL set is a
\* subset of the input list and is exactly the set of URLs that have an
\* outcome in the returned list: no URL is marked attempted without an
\* outcome and no outcome belongs to a URL that is not marked attempted.
C37_AttemptedIffOutcome ==
    \A m \in Modes :
        pc[m] = "returned" =>
            /\ processedUrlsSet[m] \subseteq Range(urlsToProcess)
            /\ processedUrlsSet[m] = Range(UrlsDone(m))

\* C20: with a chunk size > 0 the chunks handed to executeChunk are consecutive
\* pieces of exactly that size, only the last one possibly shorter, and put
\* together they are the input list: every URL in exactly one chunk, in the
\* original order.  With a size <= 0 (or unset) there is one chunk, the whole
\* input.
C20_ChunksPartitionTheInput ==
    \A m \in Modes :
        LET size  == options.chunkSize
            chunk == ChunkOf(m)
            done  == UrlsDone(m)
        IN /\ (pc[m] = "launch" /\ size > 0) =>
                  /\ Len(chunk) >= 1
                  /\ Len(done) = (chunksRun[m] - 1) * size
                  /\ Len(done) + Len(chunk) <= Len(urlsToProcess)
                  /\ done \o chunk = SubSeq(urlsToProcess, 1, Len(done) + Len(chunk))
                  /\ \/ Len(chunk) = size
                     \/ /\ Len(chunk) < size
                        /\ Len(done) + Len(chunk) = Len(urlsToProcess)
           /\ (pc[m] = "launch" /\ size <= 0) =>
                  /\ chunk = urlsToProcess
                  /\ chunksRun[m] = 1 /\ done = <<>>
           /\ pc[m] = "returned" =>
                  /\ done = urlsToProcess
                  /\ size <= 0 => chunksRun[m] = 1

\* five URLs in chunks of two: the third chunk is the single last URL
C20_Witness ==
    \E m \in Modes :
        /\ pc[m] = "launch"
        /\ Len(urlsToProcess) = 5 /\ options.chunkSize = 2
        /\ chunksRun[m] = 3
        /\ ChunkOf(m) = <<urlsToProcess[5]>>

(***************************************************************************)
(* Properties of the URL processor.                                        *)
(***************************************************************************)
\* an absolute http(s) URL: a scheme, something after it, and neither
\* whitespace nor a quote anywhere
IsAbsoluteHttpUrl(url) ==
    /\ Len(url) >= 2
    /\ url[1] \in Schemes
    /\ \A i \in DOMAIN url : url[i] \notin Whitespace \cup {Quote}

\* C21: whatever the file name and the content, the list processFileContent
\* returns holds no URL twice, and each of its elements is an absolute URL
\* with an http or https scheme.
C21_ExtractedUrlsUniqueAndAbsolute ==
    call.op = "processFileContent" =>
        /\ \A i, j \in DOMAIN call.returned :
              i # j => call.returned[i] # call.returned[j]
        /\ \A i \in DOMAIN call.returned : IsAbsoluteHttpUrl(call.returned[i])

\* the reference fetchUrlsFromGitHub was called with, and its limit
FetchWorld == call.args[1]
FetchLimit == call.args[2]

\* the listed files whose content is fetched and read: files with a supported
\* extension whose download succeeds
Usable(file) ==
    file.type = "file" /\ file.ext # "other" /\ file.download.status = "ok"

\* the URLs the reference leads to, each once, in the order they are first
\* seen, when every file that cannot be fetched is left out
RECURSIVE SeenFrom(_, _)
SeenFrom(files, i) ==
    IF i > Len(files) THEN <<>>
    ELSE (IF Usable(files[i])
          THEN ProcessFileContent(files[i].ext, files[i].download.content) ELSE <<>>)
            \o SeenFrom(files, i + 1)

FirstSeen ==
    IF FetchWorld.shape = "blob"
    THEN AddAll(<<>>, ProcessFileContent(FetchWorld.ext, FetchWorld.direct.content))
    ELSE AddAll(<<>>, SeenFrom(FetchWorld.files, 1))

\* C22: when numUrls is given, fetchUrlsFromGitHub returns at most numUrls
\* URLs, for a direct file link and for a repository root alike, and they are
\* the first-seen URLs in first-seen order.
C22_AtMostNumUrlsFirstSeen ==
    (call.op = "fetchUrlsFromGitHub" /\ FetchLimit.given) =>
        /\ Len(call.returned) <= FetchLimit.value
        /\ call.returned = SubSeq(FirstSeen, 1, Len(call.returned))

\* C23: fetchUrlsFromGitHub never raises; when the listing request fails or
\* is answered with a non-success status, the reference is malformed, the
\* listing is not a list, or the download of a directly linked file fails, it
\* returns the empty list and has logged an error.
C23_FetchNeverRaises ==
    call.op = "fetchUrlsFromGitHub" =>
        /\ ~call.raised
        /\ (\/ FetchWorld.shape = "malformed"
            \/ FetchWorld.shape = "root" /\ FetchWorld.listing # "files"
            \/ FetchWorld.shape = "blob" /\ FetchWorld.direct.status # "ok")
              => (call.returned = <<>> /\ call.loggedError)

\* the listing could not be had
C23_Witness ==
    /\ call.op = "fetchUrlsFromGitHub"
    /\ FetchWorld.shape = "root" /\ FetchWorld.listing = "notlist"
    /\ call.returned = <<>> /\ call.loggedError /\ ~call.raised

\* the listed files with a supported extension whose fetch fails
FailedFiles ==
    {i \in DOMAIN FetchWorld.files :
        LET file == FetchWorld.files[i] IN
        file.type = "file" /\ file.ext # "other" /\ file.download.status # "ok"}

\* C24: in a repository-root fetch a listed file that cannot be fetched is
\* logged and skipped: the result is what the same listing gives without that
\* file (cut at the limit when there is one), so the URLs of the files before
\* it are kept and the files after it are still fetched.
C24_FailedFileIsSkipped ==
    (/\ call.op = "fetchUrlsFromGitHub"
     /\ FetchWorld.shape = "root" /\ FetchWorld.listing = "files")
        => /\ call.returned =
                 IF Limited(FetchLimit) /\ Len(FirstSeen) > FetchLimit.value
                 THEN SubSeq(FirstSeen, 1, FetchLimit.value) ELSE FirstSeen
           /\ (FailedFiles # {} /\ ~Limited(FetchLimit))
                 => (call.loggedError \/ call.warned)
           /\ ~call.raised

\* a file failed between two files that were read, and the URLs of both are
\* in the result
C24_Witness ==
    /\ call.op = "fetchUrlsFromGitHub"
    /\ FetchWorld.shape = "root"
    /\ \E i \in FailedFiles :
          /\ \E j \in 1..(i - 1) :
                /\ Usable(FetchWorld.files[j])
                /\ FetchWorld.files[j].download.content = <<"http://", "a.com">>
          /\ \E j \in (i + 1)..Len(FetchWorld.files) :
                /\ Usable(FetchWorld.files[j])
                /\ FetchWorld.files[j].download.content # <<"http://", "a.com">>
    /\ Len(call.returned) >= 2
    /\ call.loggedError \/ call.warned

\* the unique URLs the usable files before the i-th listed file hold
SeenBefore(i) == AddAll(<<>>, SeenFrom(SubSeq(FetchWorld.files, 1, i - 1), 1))

\* C33: in a repository-root fetch with numUrls given, no listed file is
\* fetched once the unique URLs collected have reached numUrls, and the
\* collected set (call.collected, before the final cut) never exceeds numUrls.
C33_StopsFetchingAtLimit ==
    (/\ call.op = "fetchUrlsFromGitHub"
     /\ FetchWorld.shape = "root" /\ FetchWorld.listing = "files"
     /\ FetchLimit.given)
        => /\ Len(call.collected) <= FetchLimit.value
           /\ \A i \in call.fetched : Len(SeenBefore(i)) < FetchLimit.value

\* the fully qualified URLs of the raw content, each once
RawScan == AddAll(<<>>, MatchUrls(call.args[2], 1))

\* C34: processFileContent never raises; for a .json file that does not parse
\* it returns the URLs of the scan of the raw content, for a .csv file that
\* does not parse the URLs found before the parse, which are those of the same
\* scan, and in both cases it has only warned.
C34_ParseFailureFallsBack ==
    call.op = "processFileContent" =>
        /\ ~call.raised
        /\ (\/ call.args[1] = "json" /\ ~JsonParse(call.args[2]).ok
            \/ call.args[1] = "csv" /\ ~CsvParse(call.args[2]).ok)
              => (call.returned = RawScan /\ call.warned /\ ~call.fsError)

\* a .json file with an unclosed string literal gave the URL inside it
C34_Witness ==
    /\ call.op = "processFileContent"
    /\ call.args = <<"json", <<Quote, "http://", "a.com">>>>
    /\ call.returned = <<<<"http://", "a.com">>>>
    /\ call.warned

(***************************************************************************)
(* Properties of processPageTask.                                          *)
(***************************************************************************)
\* "_"-joined upper-case pieces of a message: whitespace to "_", upper case
Slug(msg) == [i \in DOMAIN msg |-> IF msg[i] = Blank THEN "" ELSE UpperWord(msg[i])]

\* the net:: tokens of a message, as the positions of the words holding one
NetWords(msg) == {i \in DOMAIN msg : NetToken(msg[i]) # ""}

FirstNetToken(msg) == NetToken(msg[CHOOSE i \in NetWords(msg) : \A j \in NetWords(msg) : i <= j])

\* the visit processPageTask was applied to, and its result
VisitUrl == call.args[1]
Visit == call.args[2]
VisitResult == call.returned[1]

\* a visit that returns is a success iff a library or an instance was found,
\* otherwise a no_data; a visit that raises is an error
ClassifiedByOutcome ==
    /\ ~Visit.raised =>
          /\ VisitResult.type \in {"success", "no_data"}
          /\ VisitResult.type = "success"
                <=> (Len(Visit.pageData.libraries) > 0
                        \/ Len(Visit.pageData.prebidInstances) > 0)
    /\ Visit.raised => (VisitResult.type = "error" /\ VisitResult.error # <<>>)

\* C29 as stated: a visit that returns is Success iff a library or an instance
\* was found, else NoSignal; a visit that raises is a Failure whose errorCode
\* is the net:: token of the error text if it has one, and else the error
\* message (surrounding whitespace aside) with whitespace replaced by
\* underscores, in upper case; it is never empty.
C29_ErrorCodeIsSluggedMessage ==
    call.op = "processPageTask" =>
        /\ ClassifiedByOutcome
        /\ (Visit.raised /\ NetWords(Visit.message) # {})
              => VisitResult.error = <<FirstNetToken(Visit.message)>>
        /\ (Visit.raised /\ NetWords(Visit.message) = {}
                         /\ TrimWords(Visit.message) # <<>>)
              => VisitResult.error = Slug(TrimWords(Visit.message))

\* the message without a leading "Error processing <url>: "
Unprefixed(msg, url) ==
    IF Len(msg) > 3 /\ <<msg[1], msg[2], msg[3]>> = <<"Error", "processing", UrlColon(url)>>
    THEN [i \in 1..(Len(msg) - 3) |-> msg[i + 3]]
    ELSE msg

\* C29, amended: as above, but the errorCode of an error text without a net::
\* token is made from the message with its leading "Error processing <url>: "
\* removed and then trimmed; it is UNKNOWN_ERROR when there is no message and
\* UNKNOWN_PAGE_ERROR when nothing is left of it.
C29_ErrorCodeIsSluggedBody ==
    call.op = "processPageTask" =>
        /\ ClassifiedByOutcome
        /\ (Visit.raised /\ NetWords(Visit.message) # {})
              => VisitResult.error = <<FirstNetToken(Visit.message)>>
        /\ (Visit.raised /\ NetWords(Visit.message) = {}) =>
              LET left == TrimWords(Unprefixed(Visit.message, VisitUrl)) IN
              VisitResult.error =
                  IF Visit.message = <<>> THEN <<"UNKNOWN", "ERROR">>
                  ELSE IF left = <<>> THEN <<"UNKNOWN_PAGE_ERROR">>
                  ELSE Slug(left)

\* an error whose message carries the prefix of its own URL gave the code of
\* what follows the prefix
C29_Witness ==
    /\ call.op = "processPageTask"
    /\ Visit.raised
    /\ Visit.message = ErrorPrefix(VisitUrl) \o <<"went", "wrong">>
    /\ VisitResult = [type |-> "error", url |-> VisitUrl, error |-> <<"WENT", "WRONG">>]

(***************************************************************************)
(* Properties of the results-handler functions.                            *)
(***************************************************************************)
\* the words that, in any spelling of upper and lower case, make a message one
\* of the timeout / name-not-resolved / connection-refused class
NavigationWords ==
    {"timeout", "timeouterror:", "net::err_name_not_resolved",
     "net::err_connection_refused", "net::err_timed_out"}

\* where the claim sends an outcome
Destination(r) ==
    CASE r.type = "success" -> "returned"
      [] r.type = "no_data" -> "no_prebid.txt"
      [] OTHER ->
          IF \/ UpperWord(r.error.code) \in {"ENOTFOUND", "ERR_NAME_NOT_RESOLVED"}
             \/ \E i \in DOMAIN r.error.message :
                   LowerWord(r.error.message[i]) \in NavigationWords
          THEN "navigation_errors.txt"
          ELSE "error_processing.txt"

\* the outcomes of rs the claim sends to dest, in order
RECURSIVE RoutedTo(_, _)
RoutedTo(rs, dest) ==
    IF rs = <<>> THEN <<>>
    ELSE (IF Head(rs) # NullResult /\ Destination(Head(rs)) = dest
          THEN <<Head(rs)>> ELSE <<>>) \o RoutedTo(Tail(rs), dest)

\* C9: processAndLogTaskResults routes every outcome to exactly one
\* destination (codes and message tokens are compared without regard to case):
\* the data of the successes, and nothing else, is returned; each log grows by
\* the URLs of the outcomes that belong to it, and by nothing else -- no-signal
\* outcomes go to no_prebid.txt, failures of the navigation class to
\* navigation_errors.txt, every other failure to error_processing.txt.
C9_EachOutcomeToOneDestination ==
    [][(call'.op = "processAndLogTaskResults" /\ ~call'.fsError) =>
          LET rs == call'.args IN
          /\ call'.returned =
                [i \in DOMAIN RoutedTo(rs, "returned") |-> RoutedTo(rs, "returned")[i].data]
          /\ \A f \in ErrorFiles :
                errorLogs'[f] = errorLogs[f] \o
                    [i \in DOMAIN RoutedTo(rs, f) |-> RoutedTo(rs, f)[i].url]]_vars

\* a call that was given a failure known by its message only and a failure of
\* the processing class has logged both
C9_Witness ==
    /\ call.op = "processAndLogTaskResults" /\ ~call.fsError
    /\ \E i, j \in DOMAIN call.args :
          /\ call.args[i] \in {r \in HandlerResults \ {NullResult} : r.type = "error"}
          /\ call.args[j] \in {r \in HandlerResults \ {NullResult} : r.type = "error"}
          /\ call.args[i].error.code = NoValue
          /\ Destination(call.args[i]) = "navigation_errors.txt"
          /\ Destination(call.args[j]) = "error_processing.txt"
          /\ errorLogs["navigation_errors.txt"] = <<"old", call.args[i].url>>
          /\ errorLogs["error_processing.txt"] = <<call.args[j].url>>

\* C10: when the day's store file exists but does not parse, or parses to
\* something that is not a list, writeResultsToFile with new successes does not
\* raise and, the file system letting it write, warns and leaves the file
\* holding exactly the new successes.
C10_CorruptStoreIsOverwritten ==
    [][(/\ call'.op = "writeResultsToFile"
        /\ store[WriteResultsPath].kind \in {"garbage", "object"}
        /\ call'.args # <<>>)
          => /\ ~call'.raised
             /\ ~call'.fsError =>
                   /\ call'.warned
                   /\ store'[WriteResultsPath] = Stringify(call'.args)]_vars

\* a write over a file that did not parse, and one over a file that held
\* something other than a list, have gone through
C10_Witness ==
    /\ call.op = "writeResultsToFile" /\ ~call.fsError /\ call.warned
    /\ call.args # <<>>
    /\ store[WriteResultsPath] = Stringify(call.args)

\* the lists that hold the entries of rs in another order
Reorderings(rs) ==
    {[i \in DOMAIN rs |-> rs[p[i]]] :
        p \in {q \in [DOMAIN rs -> DOMAIN rs] : \A i, j \in DOMAIN rs : i # j => q[i] # q[j]}}

\* the URLs of the entries of rs that are outcomes, in the order of rs
OutcomeUrls(rs) ==
    LET given == SelectSeq(rs, LAMBDA r : r.type # "null")
    IN [i \in DOMAIN given |-> ResultUrl(given[i])]

\* what processAndLogTaskResults does with a list when the file system works,
\* from the directories and logs as they stand
LoggedFor(rs) ==
    ProcessFrom(rs, 1, [dirs |-> dirs, logs |-> errorLogs, failed |-> FALSE,
                        warned |-> FALSE, successfulResults |-> <<>>],
                [at |-> 0, kind |-> "none"])

\* C36: the order in which the outcomes arrive does not change what is
\* persisted: for every permutation of the list a call was given, each error
\* log receives the same set of URLs, the same set of success records is
\* returned for the store, and the reconciled input file is the same; within
\* the call the lines appended to a log and the records returned follow the
\* order of the list.
C36_PersistenceIgnoresArrivalOrder ==
    [][(call'.op = "processAndLogTaskResults" /\ ~call'.fsError) =>
          LET rs == call'.args
              appended(f) == SubSeq(errorLogs'[f], Len(errorLogs[f]) + 1, Len(errorLogs'[f]))
              returnedUrls == [i \in DOMAIN call'.returned |-> call'.returned[i].url]
              file == [exists |-> TRUE, lines |-> <<"A", "B", "C">>]
          IN
          /\ \A perm \in Reorderings(rs) :
                /\ \A f \in ErrorFiles :
                      Range(LoggedFor(perm).logs[f]) = Range(errorLogs'[f])
                /\ Range(LoggedFor(perm).successfulResults) = Range(call'.returned)
                /\ \A scope \in {<<"A", "B">>, <<"B">>} :
                      /\ FinalUrlsToWrite(file, scope, perm)
                            = FinalUrlsToWrite(file, scope, rs)
                      /\ SaveResultsInputLines(file.lines, scope, perm)
                            = SaveResultsInputLines(file.lines, scope, rs)
                /\ Range(SuccessData(perm)) = Range(call'.returned)
          /\ \A f \in ErrorFiles :
                appended(f) = SelectSeq(OutcomeUrls(rs), LAMBDA u : u \in Range(appended(f)))
          /\ returnedUrls = SelectSeq(OutcomeUrls(rs), LAMBDA u : u \in Range(returnedUrls))
          /\ call'.returned = SuccessData(rs)]_vars

\* a call was given two no-signal outcomes, B before A, and logged them so
C36_Witness ==
    /\ call.op = "processAndLogTaskResults" /\ ~call.fsError
    /\ Len(call.args) = 2
    /\ call.args[1] = [type |-> "no_data", url |-> "B"]
    /\ call.args[2] = [type |-> "no_data", url |-> "A"]
    /\ errorLogs["no_prebid.txt"] = <<"B", "A">>

\* the arguments updateInputFile was called with
ReconcilePath == call.args[1]
ReconcileScope == call.args[2]
ReconcileOutcomes == call.args[3]

\* the URLs a file lists: its lines without the blanks around them, blank
\* lines left out
FileUrls(lines) ==
    SelectSeq([i \in DOMAIN lines |-> TrimLine(lines[i])], LAMBDA line : line # "")

\* the URLs that produced a Success
Succeeded ==
    {r.data.url : r \in {x \in Range(ReconcileOutcomes) : x.type = "success"}}

\* a call of updateInputFile on a .txt file that wrote the file
FileUpdated ==
    call.op = "updateInputFile" /\ ReconcilePath = "txt" /\ ~call.fsError

\* C35: when the .txt input file does not exist at reconciliation time, it is
\* created with exactly the URLs of the scope that did not produce a Success,
\* in scope order.
C35_MissingFileIsCreatedFromScope ==
    [][(~inputFile.exists /\ FileUpdated')
          => /\ inputFile'.exists
             /\ inputFile'.lines =
                   SelectSeq(ReconcileScope', LAMBDA url : url \notin Succeeded')]_vars

\* the file was missing and now lists B, the URL of the scope without a Success
C35_Witness ==
    /\ FileUpdated /\ call.warned /\ saves = 1
    /\ ReconcileScope = <<"A", "B">>
    /\ "A" \in Succeeded
    /\ inputFile = [exists |-> TRUE, lines |-> <<"B">>]

\* the URLs the last call took out of the file it read
RemovedUrls == Range(FileUrls(call.read)) \ Range(inputFile.lines)

\* C38: updateInputFile removes a line only for a Success of the scope: the
\* URLs removed from an existing file are among the scope's URLs that
\* produced a Success, and the rewritten file lists the other URLs of the old
\* file, nothing else, in their order.
C38_OnlyScopeSuccessesRemoved ==
    (FileUpdated /\ ~call.warned) =>
        /\ RemovedUrls \subseteq (Range(ReconcileScope) \cap Succeeded)
        /\ inputFile.lines =
              SelectSeq(FileUrls(call.read), LAMBDA url : url \notin RemovedUrls)

\* C succeeded but is outside the scope and stays; A, in the scope, is removed
C38_Witness ==
    /\ FileUpdated /\ ~call.warned
    /\ ReconcileScope = <<"A">>
    /\ Succeeded = {"A", "C"}
    /\ call.read = <<"C", "A">>
    /\ inputFile.lines = <<"C">>

\* C39: reconciliation is idempotent: a second call with the same scope and
\* outcomes on the file the first call wrote leaves the file's URL list as it is.
C39_ReconciliationIdempotent ==
    [][(FileUpdated /\ FileUpdated')
          => FileUrls(inputFile'.lines) = FileUrls(inputFile.lines)]_vars

\* the second call read what the first had left and wrote it back
C39_Witness ==
    /\ FileUpdated /\ saves = 2
    /\ ReconcileScope = <<"A", "B">>
    /\ "A" \in Succeeded
    /\ call.read = <<"B", "C">>
    /\ inputFile.lines = <<"B", "C">>

====
